---- MODULE Spec2Model ----
(***************************************************************************)
(* A model of the MTProto instance core, Instance::Private of              *)
(* Telegram/SourceFiles/mtproto/mtp_instance.cpp: the request table        *)
(* (_requestsByDc, _requestMap, _parserMap), the delayed queue with its    *)
(* timer, the error policy (onErrorDefault), the auth export/import chain  *)
(* and the session registry with its main session.                         *)
(*                                                                         *)
(* Every handler of the main thread is one atomic action.  Handlers are    *)
(* written as operators over a record holding the instance's fields, so    *)
(* that the calls a handler makes compose as in the code.                  *)
(*                                                                         *)
(* Time is kept relative to the current instant: crl::now() is 0, a due    *)
(* time is the number of milliseconds left, and the passing of d ms        *)
(* subtracts d from every stored due time.                                 *)
(***************************************************************************)
EXTENDS Integers, Sequences, FiniteSets, TLC

\* ------------------------------------------------------------------ bounds

\* Requests the callers send in one run of Spec; they get the first ids.
MaxSends == 1
\* rpc_error frames the sessions deliver in one run of Spec.
MaxErrors == 2
\* Consecutive transient failures followed in SpecBackoff.
MaxBackoffErrors == 8
MaxAuthSends == 2
MaxAuthErrors == 3
MaxQueueSends == 2
MaxQueueErrors == 3
MaxMainSends == 2
MaxMainErrors == 2
MaxKeyErrors == 2
MaxCdnRequests == 2
MaxCdnErrors == 2
MaxAllocations == 5

\* ------------------------------------------------------- program constants

\* std::numeric_limits<int>::max() / 2, where GetNextRequestId resets.
kRequestIdWrap == 1073741823
\* The retry delay stops doubling once it is above this many seconds.
kMaxDelaySecs == 60
\* Milliseconds added to every delayed resend.
kDelayPadMs == 10
\* DcId shifts are multiples of this (mtproto/core_types.h).
kDcShift == 10000
\* Config::kDefaultMainDc, Config::kNotSetMainDc, Config::kNoneMainDc.
kDefaultMainDc == 2
kNotSetMainDc == -1
kNoneMainDc == 0
\* Config::kTemporaryMainDc: bare dc ids from here on are temporary ones.
kTemporaryMainDc == 1000
\* A null AuthKeyPtr.
NoKey == 0

\* ------------------------------------------------------------ input domains

\* Bare data centers of the address book.
DcIds == {1, 2}

\* The threads that call GetNextRequestId.
Threads == {"main", "a", "b"}
\* The bare dcs for which dcOptions()->dcType answers DcType::Cdn.
CdnDcIds == {3}
\* FLOOD_WAIT_S values the server sends.
FloodSecs == {0, 1}

\* ------------------------------------------------------------------ helpers

Put(f, k, v) == [x \in (DOMAIN f) \cup {k} |-> IF x = k THEN v ELSE f[x]]
Erase(f, k) == [x \in (DOMAIN f) \ {k} |-> f[x]]
Emplace(f, k, v) == IF k \in DOMAIN f THEN f ELSE Put(f, k, v)
EmptyMap == [x \in {} |-> 0]
Abs(x) == IF x < 0 THEN -x ELSE x
Contains(seq, x) == \E i \in 1..Len(seq) : seq[i] = x
InsertAt(seq, i, x) == SubSeq(seq, 1, i - 1) \o <<x>> \o SubSeq(seq, i, Len(seq))

\* C++ integer division and remainder truncate towards zero.
CDiv(a, b) == IF a >= 0 THEN a \div b ELSE -((-a) \div b)
CRem(a, b) == IF a >= 0 THEN a % b ELSE -((-a) % b)

BareDcId(shiftedDcId) == CRem(shiftedDcId, kDcShift)
GetDcIdShift(shiftedDcId) == CDiv(shiftedDcId, kDcShift)
ShiftDcId(dcId, shift) == dcId + kDcShift * shift

\* -------------------------------------------------------------------- state

VARIABLES
    GlobalAtomicRequestId,  \* the allocator's counter
    mainDcId,               \* _mainDcId
    mainDcIdForced,         \* _mainDcIdForced
    dcenters,               \* keys of _dcenters
    mainSession,            \* shifted dc of *_mainSession, 0 for nullptr; negated
                            \* while that session is not in _sessions any more
    sessions,               \* keys of _sessions
    sessionsToDestroy,      \* shifted dcs of the sessions in _sessionsToDestroy
    requestsByDc,           \* _requestsByDc: id -> +dcWithShift or -dc
    authExportRequests,     \* _authExportRequests: export id -> target dcWithShift
    parserMap,              \* _parserMap: id -> the kind of handlers stored
    requestMap,             \* _requestMap: id -> [msgId, needsLayer, after]
    delayedRequests,        \* _delayedRequests: sequence of [id, due]
    requestsDelays,         \* _requestsDelays: id -> seconds
    badGuestDcRequests,     \* _badGuestDcRequests
    authWaiters,            \* _authWaiters: bare dc -> sequence of ids (absent = empty)
    keysForWrite,           \* keys of _keysForWrite
    keyValues,              \* _keysForWrite: dc -> the key stored for it
    violated,               \* the Expects / Assert that failed and ended the program
    keyRequests,            \* id -> the shiftedDcId its logOut / destroy handlers captured
    keyDestroys,            \* shifted dcs of the queued completedKeyDestroy closures
    allKeysDestroyed,       \* how many times _allKeysDestroyed has fired
    configLoader,           \* _configLoader holds a loader
    httpUnixtimeLoader,     \* _httpUnixtimeLoader: "none" for nullptr, "loading", or
                            \* "done" once its callback has queued the reset
    cdnConfigLoadRequestId, \* _cdnConfigLoadRequestId
    checkDelayedTimer,      \* ms until _checkDelayedTimer fires, -1 when inactive
    authorized,             \* Main::Session::Exists()
    inflight,               \* ids a session was handed and has not answered yet
    errorsSeen,             \* rpc_error frames delivered so far
    cancelled,              \* ids for which cancel() has returned
    last,                   \* the last operation: [op, id, err, policy, again]
    sent,                   \* sendPrepared calls of the last operation: [dc, id, layer]
    cancels,                \* Session::cancel calls of the last operation: [dc, id, msgId]
    called,                 \* handler calls of the last operation: [h, id, ret]
    threadResult,           \* per thread inside GetNextRequestId: its local "result"
                            \* between the increment and the comparison, 0 outside
    issued                  \* the ids GetNextRequestId was left with by its callers on
                            \* threads, in the order of their increments

vars == <<GlobalAtomicRequestId, mainDcId, mainDcIdForced, dcenters, mainSession,
          sessions, sessionsToDestroy, requestsByDc, authExportRequests, parserMap,
          requestMap, delayedRequests, requestsDelays, badGuestDcRequests,
          authWaiters, keysForWrite, keyValues, violated, keyRequests, keyDestroys,
          allKeysDestroyed,
          configLoader, httpUnixtimeLoader, cdnConfigLoadRequestId, checkDelayedTimer, authorized, inflight, errorsSeen,
          cancelled, last, sent, cancels, called, threadResult, issued>>

\* The instance as one record, for the operators that model its methods.
Cur ==
    [GlobalAtomicRequestId |-> GlobalAtomicRequestId, mainDcId |-> mainDcId,
     mainDcIdForced |-> mainDcIdForced, dcenters |-> dcenters,
     mainSession |-> mainSession, sessions |-> sessions,
     sessionsToDestroy |-> sessionsToDestroy, requestsByDc |-> requestsByDc,
     authExportRequests |-> authExportRequests, parserMap |-> parserMap,
     requestMap |-> requestMap, delayedRequests |-> delayedRequests,
     requestsDelays |-> requestsDelays, badGuestDcRequests |-> badGuestDcRequests,
     authWaiters |-> authWaiters, keysForWrite |-> keysForWrite,
     keyValues |-> keyValues, violated |-> violated,
     keyRequests |-> keyRequests, keyDestroys |-> keyDestroys,
     allKeysDestroyed |-> allKeysDestroyed, configLoader |-> configLoader,
     httpUnixtimeLoader |-> httpUnixtimeLoader,
     cdnConfigLoadRequestId |-> cdnConfigLoadRequestId,
     checkDelayedTimer |-> checkDelayedTimer,
     authorized |-> authorized, inflight |-> inflight, errorsSeen |-> errorsSeen,
     cancelled |-> cancelled, policy |-> "none", result |-> "ok",
     sent |-> <<>>, cancels |-> <<>>, called |-> <<>>]

\* _keysForWrite of record s as a map: the key a dc was given by
\* dcPersistentKeyChanged, and for a dc the key destroyer placed the key of
\* that slot, named by the slot.
KeyValuesOf(s) ==
    [d \in s.keysForWrite |-> IF d \in DOMAIN s.keyValues THEN s.keyValues[d] ELSE d]

\* The instance after an operation that ended in record s.  A failed Expects
\* or Assert ends the program: no operation runs after it, and the fields it
\* left are not read again.
Becomes(s, op, id, err) ==
    /\ violated = {}
    /\ GlobalAtomicRequestId' = s.GlobalAtomicRequestId
    /\ mainDcId' = s.mainDcId
    /\ mainDcIdForced' = s.mainDcIdForced
    /\ dcenters' = s.dcenters
    /\ mainSession' = s.mainSession
    /\ sessions' = s.sessions
    /\ sessionsToDestroy' = s.sessionsToDestroy
    /\ requestsByDc' = s.requestsByDc
    /\ authExportRequests' = s.authExportRequests
    /\ parserMap' = s.parserMap
    /\ requestMap' = s.requestMap
    /\ delayedRequests' = s.delayedRequests
    /\ requestsDelays' = s.requestsDelays
    /\ badGuestDcRequests' = s.badGuestDcRequests
    /\ authWaiters' = s.authWaiters
    /\ keysForWrite' = s.keysForWrite
    /\ keyValues' = KeyValuesOf(s)
    /\ violated' = s.violated
    /\ keyRequests' = s.keyRequests
    /\ keyDestroys' = s.keyDestroys
    /\ allKeysDestroyed' = s.allKeysDestroyed
    /\ configLoader' = s.configLoader
    /\ httpUnixtimeLoader' = s.httpUnixtimeLoader
    /\ cdnConfigLoadRequestId' = s.cdnConfigLoadRequestId
    /\ checkDelayedTimer' = s.checkDelayedTimer
    /\ authorized' = s.authorized
    /\ inflight' = s.inflight
    /\ errorsSeen' = s.errorsSeen
    /\ cancelled' = s.cancelled
    /\ UNCHANGED <<threadResult, issued>>
    /\ last' = [op |-> op, id |-> id, err |-> err, policy |-> s.policy,
                again |-> /\ op \in {"error", "rpcError"}
                          /\ last.op = op /\ last.id = id /\ last.err = err]
    /\ sent' = s.sent
    /\ cancels' = s.cancels
    /\ called' = s.called

\* ------------------------------------------------------------------- errors

\* An RPCError: its code, its type with the number a regular expression
\* captures from it (MIGRATE_N, FLOOD_WAIT_S) as arg, and whether
\* isDefaultHandledError holds of it.
RpcError(code, type, arg, dflt) == [code |-> code, type |-> type, arg |-> arg, dflt |-> dflt]
NoError == RpcError(0, "", 0, FALSE)
\* RPCError::Local(type, description).
Local(type) == RpcError(0, type, 0, FALSE)
isDefaultHandledError(err) == err.dflt

\* What a server may answer in an rpc_error frame.  isDefaultHandledError is
\* defined outside this file; it may hold or not of the errors the policy
\* retries after a delay, and does not hold of the others.
MigrateErrors == {RpcError(303, "FILE_MIGRATE", n, FALSE) : n \in {0} \cup DcIds}
FloodErrors == {RpcError(420, "FLOOD_WAIT", n, d) : n \in FloodSecs, d \in BOOLEAN}
TransientErrors == {RpcError(-1, "TIMEOUT", 0, TRUE), RpcError(500, "INTERNAL", 0, FALSE)}
AuthErrors == {RpcError(401, "AUTH_KEY_UNREGISTERED", 0, FALSE),
               RpcError(401, "AUTH_KEY_PERM_EMPTY", 0, FALSE),
               RpcError(400, "FILE_ID_INVALID", 0, FALSE)}
OtherErrors == {RpcError(400, "CONNECTION_LAYER_INVALID", 0, FALSE),
                RpcError(400, "MSG_WAIT_FAILED", 0, FALSE),
                RpcError(400, "PEER_ID_INVALID", 0, FALSE)}
ServerErrors == MigrateErrors \cup FloodErrors \cup TransientErrors \cup AuthErrors
                    \cup OtherErrors

\* ------------------------------------------------------ dc and session registry

\* isTemporaryDcId and getRealIdFromTemporaryDcId of the dc options.
isTemporaryDcId(shiftedDcId) == BareDcId(shiftedDcId) >= kTemporaryMainDc
getRealIdFromTemporaryDcId(shiftedDcId) ==
    IF isTemporaryDcId(shiftedDcId) THEN BareDcId(shiftedDcId) - kTemporaryMainDc ELSE 0

\* The id under which Private::getDcById looks a second time and adds: the bare
\* id, a temporary one replaced by its real id.
DcIdOf(shiftedDcId) ==
    LET result == BareDcId(shiftedDcId)
    IN  IF isTemporaryDcId(result) /\ getRealIdFromTemporaryDcId(result) # 0
        THEN getRealIdFromTemporaryDcId(result)
        ELSE result

\* The key of _dcenters under which Private::getDcById finds the control block
\* of shiftedDcId, 0 when it has to add one.
FoundDc(s, shiftedDcId) ==
    IF shiftedDcId \in s.dcenters THEN shiftedDcId
    ELSE IF DcIdOf(shiftedDcId) # shiftedDcId /\ DcIdOf(shiftedDcId) \in s.dcenters
         THEN DcIdOf(shiftedDcId)
    ELSE 0

\* getDcById adding a missing control block under the shifted id.
getDcByIdKeyedByShift(s, shiftedDcId) ==
    IF shiftedDcId \in s.dcenters THEN s
    ELSE [s EXCEPT !.dcenters = @ \cup {shiftedDcId}]

\* Private::getDcById: the control block is looked up by the shifted id, then by
\* the bare id, and a missing one is added under the bare id.
getDcById(s, shiftedDcId) ==
    IF FoundDc(s, shiftedDcId) # 0 THEN s
    ELSE [s EXCEPT !.dcenters = @ \cup {DcIdOf(shiftedDcId)}]

RECURSIVE scheduleKeyDestroy(_, _)
\* startSession that never schedules the destruction of the key.
startSessionUnscheduled(s, shiftedDcId) ==
    [getDcById(s, shiftedDcId) EXCEPT !.sessions = @ \cup {shiftedDcId}]

\* Private::startSession: the session is keyed by shiftedDcId; in key-destroyer
\* mode the destruction of its key is scheduled.
startSession(s, shiftedDcId) ==
    LET d == getDcById(s, shiftedDcId)
        started == [d EXCEPT !.sessions = @ \cup {shiftedDcId}]
    IN  IF s.mainDcId = kNoneMainDc THEN scheduleKeyDestroy(started, shiftedDcId)
        ELSE started

\* An Expects or Assert of the named method failed.
Violates(s, method) == [s EXCEPT !.violated = @ \cup {method}]

\* The key under which Private::getSession(shiftedDcId) finds or starts the session.
SessionKey(s, shiftedDcId) ==
    IF shiftedDcId = 0 THEN s.mainSession
    ELSE IF BareDcId(shiftedDcId) = 0 THEN shiftedDcId + BareDcId(s.mainSession)
    ELSE shiftedDcId

\* Private::getSession: the instance after the lookup, which may start a session.
getSession(s, shiftedDcId) ==
    IF BareDcId(shiftedDcId) = 0 /\ s.mainSession = 0 THEN Violates(s, "getSession")
    ELSE IF shiftedDcId = 0 \/ SessionKey(s, shiftedDcId) \in s.sessions THEN s
    ELSE startSession(s, SessionKey(s, shiftedDcId))

\* Private::removeSession: TRUE in "removed" when a session was found, and in
\* "main" when the session it returns is *_mainSession, which then points into
\* _sessionsToDestroy.
removeSession(s, shiftedDcId) ==
    IF shiftedDcId \notin s.sessions THEN [s |-> s, removed |-> FALSE, main |-> FALSE]
    ELSE [s |-> [s EXCEPT !.sessions = @ \ {shiftedDcId},
                          !.sessionsToDestroy = @ \cup {shiftedDcId},
                          !.mainSession = IF @ = shiftedDcId THEN -shiftedDcId ELSE @],
          removed |-> TRUE,
          main |-> s.mainSession = shiftedDcId]

\* killSession without the start of a new main session.
killSessionNoRestart(s, shiftedDcId) == removeSession(s, shiftedDcId).s

\* killSession starting the new main session on the dc of the removed one.
killSessionSameDc(s, shiftedDcId) ==
    LET first == removeSession(s, shiftedDcId)
    IN  IF first.removed /\ first.main
        THEN [startSession(first.s, shiftedDcId) EXCEPT !.mainSession = shiftedDcId]
        ELSE first.s

\* Private::killSession; the queued clearing of _sessionsToDestroy is the
\* action SessionsDestroyed.
killSession(s, shiftedDcId) ==
    LET first == removeSession(s, shiftedDcId)
    IN  IF first.removed /\ first.main
        THEN LET second == removeSession(first.s, first.s.mainDcId)
                 started == startSession(second.s, second.s.mainDcId)
             IN  [started EXCEPT !.mainSession = started.mainDcId]
        ELSE first.s

\* Private::setMainDcId.
setMainDcId(s, newMainDcId) ==
    IF s.mainSession = 0 THEN s
    ELSE LET oldMainDcId == s.mainSession
             t == [s EXCEPT !.mainDcIdForced = TRUE, !.mainDcId = newMainDcId]
         IN  IF oldMainDcId # newMainDcId THEN killSession(t, oldMainDcId) ELSE t

\* suggestMainDcId without the test of _mainDcIdForced.
suggestMainDcIdIgnoresForced(s, newMainDcId) == setMainDcId(s, newMainDcId)

\* Private::suggestMainDcId.
suggestMainDcId(s, newMainDcId) ==
    IF s.mainDcIdForced THEN s ELSE setMainDcId(s, newMainDcId)

\* Session::sendPrepared(request) on the session keyed dc.
sendPrepared(s, dc, requestId) ==
    [s EXCEPT !.sent = Append(@, [dc |-> dc, id |-> requestId]),
              !.inflight = @ \cup {requestId}]

\* getSession(shiftedDcId)->sendPrepared(request): the session is found or
\* started, then handed the request.
sendPreparedTo(s, shiftedDcId, requestId) ==
    sendPrepared(getSession(s, shiftedDcId), SessionKey(s, shiftedDcId), requestId)

\* ------------------------------------------------------------- request table

\* internal::GetNextRequestId: the id returned, and the counter afterwards.
NextRequestId(s) == s.GlobalAtomicRequestId + 1
GetNextRequestId(s) ==
    [s EXCEPT !.GlobalAtomicRequestId =
        IF NextRequestId(s) = kRequestIdWrap THEN 0 ELSE NextRequestId(s)]

\* Private::queryRequestByDc: 0 stands for std::nullopt (no stored value is 0).
queryRequestByDc(s, requestId) ==
    IF requestId \in DOMAIN s.requestsByDc THEN s.requestsByDc[requestId] ELSE 0

\* The routing rewritten to the bare new dc, sign and shift dropped.
ChangedDcDropsSign(stored, newdc) == newdc

\* The value Private::changeRequestByDc writes for a stored routing.
ChangedDc(stored, newdc) ==
    IF stored < 0 THEN -newdc ELSE ShiftDcId(newdc, GetDcIdShift(stored))

\* Private::changeRequestByDc.
changeRequestByDc(s, requestId, newdc) ==
    IF requestId \in DOMAIN s.requestsByDc
    THEN [s EXCEPT !.requestsByDc[requestId] = ChangedDc(@, newdc)]
    ELSE s

\* Private::registerRequest.
registerRequest(s, requestId, shiftedDcId) ==
    [s EXCEPT !.requestsByDc = Put(@, requestId, shiftedDcId)]

\* Private::unregisterRequest.
unregisterRequest(s, requestId) ==
    [s EXCEPT !.requestsDelays = Erase(@, requestId),
              !.requestMap = Erase(@, requestId),
              !.requestsByDc = Erase(@, requestId)]

\* Private::storeRequest: handlers "none" stands for a request with no callbacks.
storeRequest(s, requestId, request, handlers) ==
    [s EXCEPT !.parserMap = IF handlers = "none" THEN @ ELSE Emplace(@, requestId, handlers),
              !.requestMap = Emplace(@, requestId, request)]

\* The message id a session stamps into the payload of request requestId.
MsgIdOf(requestId) == 100 + requestId

\* sendRequest without the registerRequest that records the routing.
sendRequestUnregistered(s, requestId, handlers, shiftedDcId, needsLayer, afterRequestId) ==
    LET after == IF afterRequestId \in (DOMAIN s.requestMap) \cup {requestId}
                 THEN afterRequestId ELSE 0
        request == [msgId |-> MsgIdOf(requestId), needsLayer |-> needsLayer,
                    after |-> after]
    IN  sendPreparedTo(storeRequest(s, requestId, request, handlers), shiftedDcId, requestId)

\* sendRequest recording the dc of the session without the sign.
sendRequestUnsigned(s, requestId, handlers, shiftedDcId, needsLayer, afterRequestId) ==
    LET key == SessionKey(s, shiftedDcId)
        after == IF afterRequestId \in (DOMAIN s.requestMap) \cup {requestId}
                 THEN afterRequestId ELSE 0
        request == [msgId |-> MsgIdOf(requestId), needsLayer |-> needsLayer,
                    after |-> after]
    IN  sendPreparedTo(
            registerRequest(storeRequest(s, requestId, request, handlers), requestId, key),
            shiftedDcId, requestId)

\* Private::sendRequest with the id Instance::send allocated for it.
sendRequest(s, requestId, handlers, shiftedDcId, needsLayer, afterRequestId) ==
    LET key == SessionKey(s, shiftedDcId)
        after == IF afterRequestId \in (DOMAIN s.requestMap) \cup {requestId}
                 THEN afterRequestId ELSE 0
        request == [msgId |-> MsgIdOf(requestId), needsLayer |-> needsLayer,
                    after |-> after]
        signedDcId == IF shiftedDcId = 0 THEN -key ELSE key
    IN  sendPreparedTo(
            registerRequest(storeRequest(s, requestId, request, handlers),
                            requestId, signedDcId),
            shiftedDcId, requestId)

\* Instance::send: GetNextRequestId, then sendRequest.
send(s, handlers, shiftedDcId, needsLayer, afterRequestId) ==
    sendRequest(GetNextRequestId(s), NextRequestId(s), handlers, shiftedDcId,
                needsLayer, afterRequestId)

\* ------------------------------------------------------------- key destroyer

\* MTP::destroyKeyNextDcId: the next shifted id of the same dc.
destroyKeyNextDcId(shiftedDcId) == ShiftDcId(shiftedDcId, 1)

\* Instance::send of a request whose handlers capture shiftedDcId.
sendForKey(s, handlers, shiftedDcId) ==
    [send(s, handlers, shiftedDcId, FALSE, 0)
        EXCEPT !.keyRequests = Put(@, NextRequestId(s), shiftedDcId)]

\* Private::performKeyDestroy: destroy_auth_key is sent to shiftedDcId.
performKeyDestroy(s, shiftedDcId) == sendForKey(s, "destroyKey", shiftedDcId)

\* Private::scheduleKeyDestroy: auth.logOut first, unless the dc is a CDN dc.
scheduleKeyDestroy(s, shiftedDcId) ==
    IF BareDcId(shiftedDcId) \in CdnDcIds THEN performKeyDestroy(s, shiftedDcId)
    ELSE sendForKey(s, "logOut", shiftedDcId)

\* Private::keyWasPossiblyDestroyed: completedKeyDestroy is queued.
keyWasPossiblyDestroyed(s, shiftedDcId) ==
    [s EXCEPT !.keyDestroys = Append(@, shiftedDcId)]

\* completedKeyDestroy firing without looking at _dcenters.
completedKeyDestroyAlwaysFires(s, shiftedDcId) ==
    LET removed == [s EXCEPT !.dcenters = @ \ {shiftedDcId},
                             !.keysForWrite = @ \ {shiftedDcId}]
    IN  [killSession(removed, shiftedDcId) EXCEPT !.allKeysDestroyed = @ + 1]

\* Private::completedKeyDestroy.
completedKeyDestroy(s, shiftedDcId) ==
    LET removed == [s EXCEPT !.dcenters = @ \ {shiftedDcId},
                             !.keysForWrite = @ \ {shiftedDcId}]
        Fire(killed) ==
            IF killed.dcenters = {} THEN [killed EXCEPT !.allKeysDestroyed = @ + 1]
            ELSE killed
    IN  Fire(killSession(removed, shiftedDcId))

\* The first shifted dc from shiftedDcId on, along destroyKeyNextDcId, that
\* holds no key: the while loops of start and addKeysForDestroy.
RECURSIVE FreeKeyDcId(_, _)
FreeKeyDcId(keys, shiftedDcId) ==
    IF shiftedDcId \notin keys THEN shiftedDcId
    ELSE FreeKeyDcId(keys, destroyKeyNextDcId(shiftedDcId))

\* The first loop of Private::start in key-destroyer mode, from the i-th key
\* on: each key is stored and gets its control block.
RECURSIVE PlaceKeys(_, _, _)
PlaceKeys(s, keys, i) ==
    IF i > Len(keys) THEN s
    ELSE LET Place(shiftedDcId) ==
                 [s EXCEPT !.keysForWrite = @ \cup {shiftedDcId},
                           !.dcenters = @ \cup {shiftedDcId}]
         IN  PlaceKeys(Place(FreeKeyDcId(s.keysForWrite, destroyKeyNextDcId(keys[i]))),
                       keys, i + 1)

\* The second loop of Private::start in key-destroyer mode: a session for
\* every control block, in the order of the keys of _dcenters.
RECURSIVE StartSessions(_, _)
StartSessions(s, left) ==
    IF left = {} THEN s
    ELSE LET shiftedDcId == CHOOSE d \in left : \A e \in left : d <= e
         IN  StartSessions(startSession(s, shiftedDcId), left \ {shiftedDcId})

\* Private::addKeysForDestroy, from the i-th key on.
RECURSIVE addKeysForDestroy(_, _, _)
addKeysForDestroy(s, keys, i) ==
    IF i > Len(keys) THEN s
    ELSE LET Add(shiftedDcId) ==
                 startSession([s EXCEPT !.keysForWrite = @ \cup {shiftedDcId},
                                        !.dcenters = @ \cup {shiftedDcId}],
                              shiftedDcId)
         IN  addKeysForDestroy(Add(FreeKeyDcId(s.keysForWrite, destroyKeyNextDcId(keys[i]))),
                               keys, i + 1)

\* ----------------------------------------------------------- delayed scheduler

\* crl::now(), in the model's relative time.
now == 0

RECURSIVE DrainDelayed(_)
\* The while loop of Private::checkDelayedRequests.
DrainDelayed(s) ==
    IF s.delayedRequests = <<>> \/ ~(now >= Head(s.delayedRequests).due) THEN s
    ELSE LET requestId == Head(s.delayedRequests).id
             popped == [s EXCEPT !.delayedRequests = Tail(@)]
             dcWithShift == queryRequestByDc(popped, requestId)
         IN  IF dcWithShift = 0 THEN DrainDelayed(popped)
             ELSE IF requestId \notin DOMAIN popped.requestMap THEN DrainDelayed(popped)
             ELSE DrainDelayed(sendPreparedTo(popped, Abs(dcWithShift), requestId))

\* checkDelayedRequests taking one due entry only.
checkDelayedRequestsOnlyHead(s) ==
    LET requestId == Head(s.delayedRequests).id
        popped == [s EXCEPT !.delayedRequests = Tail(@)]
        dcWithShift == queryRequestByDc(popped, requestId)
        one == IF s.delayedRequests = <<>> \/ ~(now >= Head(s.delayedRequests).due) THEN s
               ELSE IF dcWithShift = 0 \/ requestId \notin DOMAIN popped.requestMap THEN popped
               ELSE sendPreparedTo(popped, Abs(dcWithShift), requestId)
    IN  IF one.delayedRequests # <<>>
        THEN [one EXCEPT !.checkDelayedTimer = Head(one.delayedRequests).due - now]
        ELSE one

\* Private::checkDelayedRequests: drain what is due, arm the timer for the head.
checkDelayedRequests(s) ==
    LET Arm(d) ==
            IF d.delayedRequests # <<>>
            THEN [d EXCEPT !.checkDelayedTimer = Head(d.delayedRequests).due - now]
            ELSE d
    IN  Arm(DrainDelayed(s))

\* The position (1-based) at which the flood/transient branch inserts requestId
\* with due time sendAt, or 0 when requestId is met first and nothing is inserted.
RECURSIVE DelayedInsertPos(_, _, _, _)
DelayedInsertPos(queue, i, requestId, sendAt) ==
    IF i > Len(queue) THEN i
    ELSE IF queue[i].id = requestId THEN 0
    ELSE IF queue[i].due > sendAt THEN i
    ELSE DelayedInsertPos(queue, i + 1, requestId, sendAt)

\* The scan of the flood/transient branch without the test for requestId.
RECURSIVE DelayedInsertPosAnyId(_, _, _, _)
DelayedInsertPosAnyId(queue, i, requestId, sendAt) ==
    IF i > Len(queue) THEN i
    ELSE IF queue[i].due > sendAt THEN i
    ELSE DelayedInsertPosAnyId(queue, i + 1, requestId, sendAt)

\* The scan of the flood/transient branch stopping at an entry due at sendAt.
RECURSIVE DelayedInsertPosAhead(_, _, _, _)
DelayedInsertPosAhead(queue, i, requestId, sendAt) ==
    IF i > Len(queue) THEN i
    ELSE IF queue[i].id = requestId THEN 0
    ELSE IF queue[i].due >= sendAt THEN i
    ELSE DelayedInsertPosAhead(queue, i + 1, requestId, sendAt)

\* The position at which the MSG_WAIT_FAILED branch inserts requestId: that of
\* the entry of afterId; 0 when requestId is met first, Len + 1 when neither is met.
RECURSIVE DependentInsertPos(_, _, _, _)
DependentInsertPos(queue, i, requestId, afterId) ==
    IF i > Len(queue) THEN i
    ELSE IF queue[i].id = requestId THEN 0
    ELSE IF queue[i].id = afterId THEN i
    ELSE DependentInsertPos(queue, i + 1, requestId, afterId)

\* The doubling stopped before it passes 60 seconds.
NextDelayCapped(stored) == IF stored * 2 > kMaxDelaySecs THEN stored ELSE stored * 2

\* Line 1326: secs = (it->second > 60) ? it->second : (it->second *= 2).
NextDelay(stored) == IF stored > kMaxDelaySecs THEN stored ELSE stored * 2

\* The seconds the transient branch waits, and the entry it leaves in _requestsDelays.
TransientSecs(s, requestId) ==
    IF requestId \in DOMAIN s.requestsDelays THEN NextDelay(s.requestsDelays[requestId])
    ELSE 1
TransientDelays(s, requestId) ==
    [s EXCEPT !.requestsDelays = Put(@, requestId, TransientSecs(s, requestId))]

\* ---------------------------------------------------------------- error policy

Ret(s, r) == [s |-> s, r |-> r]
Waiters(s, dc) == IF dc \in DOMAIN s.authWaiters THEN s.authWaiters[dc] ELSE <<>>
SetWaiters(s, dc, list) ==
    [s EXCEPT !.authWaiters = IF list = <<>> THEN Erase(@, dc) ELSE Put(@, dc, list)]
LogCall(s, h, id, ret) ==
    [s EXCEPT !.called = Append(@, [h |-> h, id |-> id, ret |-> ret])]

\* "^(FILE|PHONE|NETWORK|USER)_MIGRATE_(\\d+)$" and "^FLOOD_WAIT_(\\d+)$".
IsMigrate(error) ==
    error.type \in {"FILE_MIGRATE", "PHONE_MIGRATE", "NETWORK_MIGRATE", "USER_MIGRATE"}
IsFloodWait(error) == error.type = "FLOOD_WAIT"
IsTransient(error) == error.code < 0 \/ error.code >= 500
IsBadGuestDc(error) == error.code = 400 /\ error.type = "FILE_ID_INVALID"

\* The MIGRATE branch with one of its steps changed: "dropsShift" composes the
\* new routing without the shift, "keepsMain" leaves the main dc alone,
\* "bumpsShift" moves the request to the next shift.
MigrateBranchChanged(s, requestId, error, change) ==
    LET dcWithShift == queryRequestByDc(s, requestId)
        newdc == error.arg
        shift == IF change = "dropsShift" THEN 0
                 ELSE IF change = "bumpsShift" THEN GetDcIdShift(dcWithShift) + 1
                 ELSE GetDcIdShift(dcWithShift)
        newdcWithShift == IF dcWithShift < 0 THEN newdc ELSE ShiftDcId(newdc, shift)
        Resend(m) ==
            IF requestId \notin DOMAIN m.requestMap THEN Ret(m, FALSE)
            ELSE Ret(sendPreparedTo(
                         registerRequest(m, requestId,
                             IF dcWithShift < 0 THEN -newdcWithShift ELSE newdcWithShift),
                         newdcWithShift, requestId),
                     TRUE)
    IN  IF requestId = 0 THEN Ret(s, FALSE)
        ELSE IF dcWithShift = 0 \/ newdc = 0 THEN Ret(s, FALSE)
        ELSE Resend(IF dcWithShift < 0 /\ change # "keepsMain" THEN setMainDcId(s, newdc)
                    ELSE s)
MigrateBranchDropsShift(s, requestId, error) ==
    MigrateBranchChanged(s, requestId, error, "dropsShift")
MigrateBranchKeepsMain(s, requestId, error) ==
    MigrateBranchChanged(s, requestId, error, "keepsMain")
MigrateBranchBumpsShift(s, requestId, error) ==
    MigrateBranchChanged(s, requestId, error, "bumpsShift")

\* onErrorDefault, the MIGRATE branch.
MigrateBranch(s, requestId, error) ==
    LET dcWithShift == queryRequestByDc(s, requestId)
        newdc == error.arg
        newdcWithShift == IF dcWithShift < 0 THEN newdc
                          ELSE ShiftDcId(newdc, GetDcIdShift(dcWithShift))
        Resend(m) ==
            IF requestId \notin DOMAIN m.requestMap THEN Ret(m, FALSE)
            ELSE Ret(sendPreparedTo(
                         registerRequest(m, requestId,
                             IF dcWithShift < 0 THEN -newdcWithShift ELSE newdcWithShift),
                         newdcWithShift, requestId),
                     TRUE)
    IN  IF requestId = 0 THEN Ret(s, FALSE)
        ELSE IF dcWithShift = 0 \/ newdc = 0 THEN Ret(s, FALSE)
        ELSE Resend(IF dcWithShift < 0 THEN setMainDcId(s, newdc) ELSE s)

\* The transient / FLOOD_WAIT branch without the 10 ms added to the due time.
DelayBranchDropsPad(s, requestId, error) ==
    LET d == IF IsTransient(error) THEN TransientDelays(s, requestId) ELSE s
        secs == IF IsTransient(error) THEN TransientSecs(s, requestId) ELSE error.arg
        sendAt == now + secs * 1000
        pos == DelayedInsertPos(d.delayedRequests, 1, requestId, sendAt)
        inserted == [d EXCEPT !.delayedRequests =
                        InsertAt(@, pos, [id |-> requestId, due |-> sendAt])]
    IN  IF requestId = 0 THEN Ret(s, FALSE)
        ELSE IF pos = 0 THEN Ret(d, TRUE)
        ELSE Ret(checkDelayedRequests(inserted), TRUE)

\* The transient / FLOOD_WAIT branch inserting without looking for requestId.
DelayBranchAnyId(s, requestId, error) ==
    LET d == IF IsTransient(error) THEN TransientDelays(s, requestId) ELSE s
        secs == IF IsTransient(error) THEN TransientSecs(s, requestId) ELSE error.arg
        sendAt == now + secs * 1000 + kDelayPadMs
        pos == DelayedInsertPosAnyId(d.delayedRequests, 1, requestId, sendAt)
        inserted == [d EXCEPT !.delayedRequests =
                        InsertAt(@, pos, [id |-> requestId, due |-> sendAt])]
    IN  IF requestId = 0 THEN Ret(s, FALSE)
        ELSE Ret(checkDelayedRequests(inserted), TRUE)

\* The transient / FLOOD_WAIT branch inserting ahead of entries due at sendAt.
DelayBranchAheadOfEqual(s, requestId, error) ==
    LET d == IF IsTransient(error) THEN TransientDelays(s, requestId) ELSE s
        secs == IF IsTransient(error) THEN TransientSecs(s, requestId) ELSE error.arg
        sendAt == now + secs * 1000 + kDelayPadMs
        pos == DelayedInsertPosAhead(d.delayedRequests, 1, requestId, sendAt)
        inserted == [d EXCEPT !.delayedRequests =
                        InsertAt(@, pos, [id |-> requestId, due |-> sendAt])]
    IN  IF requestId = 0 THEN Ret(s, FALSE)
        ELSE IF pos = 0 THEN Ret(d, TRUE)
        ELSE Ret(checkDelayedRequests(inserted), TRUE)

\* onErrorDefault, the transient / FLOOD_WAIT branch.
DelayBranch(s, requestId, error) ==
    LET d == IF IsTransient(error) THEN TransientDelays(s, requestId) ELSE s
        secs == IF IsTransient(error) THEN TransientSecs(s, requestId) ELSE error.arg
        sendAt == now + secs * 1000 + kDelayPadMs
        pos == DelayedInsertPos(d.delayedRequests, 1, requestId, sendAt)
        inserted == [d EXCEPT !.delayedRequests =
                        InsertAt(@, pos, [id |-> requestId, due |-> sendAt])]
    IN  IF requestId = 0 THEN Ret(s, FALSE)
        ELSE IF pos = 0 THEN Ret(d, TRUE)
        ELSE Ret(checkDelayedRequests(inserted), TRUE)

\* The unauthorized branch sending an export for every request it takes.
UnauthorizedBranchAlwaysExports(s, requestId, error) ==
    LET badGuestDc == IsBadGuestDc(error)
        dcWithShift == queryRequestByDc(s, requestId)
        newdc == BareDcId(Abs(dcWithShift))
        Wait(e) ==
            [SetWaiters(e, newdc, Append(Waiters(e, newdc), requestId))
                EXCEPT !.badGuestDcRequests = IF badGuestDc THEN @ \cup {requestId} ELSE @]
    IN  IF newdc = 0 \/ newdc = s.mainDcId \/ ~s.authorized
        THEN Ret(IF badGuestDc THEN s ELSE LogCall(s, "globalFail", requestId, FALSE),
                 FALSE)
        ELSE Ret(Wait(IF TRUE
                      THEN [send(s, "export", 0, TRUE, 0) EXCEPT !.authExportRequests =
                               Emplace(@, NextRequestId(s), Abs(dcWithShift))]
                      ELSE s),
                 TRUE)

\* onErrorDefault, the unauthorized / bad guest dc branch.
UnauthorizedBranch(s, requestId, error) ==
    LET badGuestDc == IsBadGuestDc(error)
        dcWithShift == queryRequestByDc(s, requestId)
        newdc == BareDcId(Abs(dcWithShift))
        Wait(e) ==
            [SetWaiters(e, newdc, Append(Waiters(e, newdc), requestId))
                EXCEPT !.badGuestDcRequests = IF badGuestDc THEN @ \cup {requestId} ELSE @]
    IN  IF newdc # 0 /\ s.mainDcId = kNoneMainDc THEN Ret(Violates(s, "mainDcId"), FALSE)
        ELSE IF newdc = 0 \/ newdc = s.mainDcId \/ ~s.authorized
        THEN Ret(IF badGuestDc THEN s ELSE LogCall(s, "globalFail", requestId, FALSE),
                 FALSE)
        ELSE Ret(Wait(IF Waiters(s, newdc) = <<>>
                      THEN [send(s, "export", 0, TRUE, 0) EXCEPT !.authExportRequests =
                               Emplace(@, NextRequestId(s), Abs(dcWithShift))]
                      ELSE s),
                 TRUE)

\* onErrorDefault, the CONNECTION_NOT_INITED / CONNECTION_LAYER_INVALID branch.
LayerBranch(s, requestId, error) ==
    LET dcWithShift == queryRequestByDc(s, requestId)
    IN  IF requestId \notin DOMAIN s.requestMap THEN Ret(s, FALSE)
        ELSE IF dcWithShift = 0 THEN Ret(s, FALSE)
        ELSE Ret(sendPreparedTo([s EXCEPT !.requestMap[requestId].needsLayer = TRUE],
                                Abs(dcWithShift), requestId),
                 TRUE)

\* onErrorDefault, the MSG_WAIT_FAILED branch.
WaitBranch(s, requestId, error) ==
    LET afterId == s.requestMap[requestId].after
        shiftedDcId == queryRequestByDc(s, requestId)
        afterDcId == queryRequestByDc(s, afterId)
        dcWithShift == IF shiftedDcId # 0 /\ afterDcId # 0 THEN shiftedDcId ELSE 0
        cleared == dcWithShift # 0 /\ shiftedDcId # afterDcId
        resent == sendPreparedTo(
                      [s EXCEPT !.requestMap[requestId].after = 0,
                                !.requestMap[requestId].needsLayer = TRUE],
                      Abs(dcWithShift), requestId)
        newdc == BareDcId(Abs(dcWithShift))
        waiters == Waiters(s, newdc)
        waiting == SetWaiters(s, newdc,
                       IF Contains(waiters, requestId) THEN waiters
                       ELSE Append(waiters, requestId))
        marked == IF afterId \in s.badGuestDcRequests
                  THEN [waiting EXCEPT !.badGuestDcRequests = @ \cup {requestId}]
                  ELSE waiting
        pos == DependentInsertPos(s.delayedRequests, 1, requestId, afterId)
        inserted == IF pos <= Len(s.delayedRequests)
                    THEN [s EXCEPT !.delayedRequests =
                            InsertAt(@, pos, [id |-> requestId, due |-> @[pos].due])]
                    ELSE s
    IN  IF requestId \notin DOMAIN s.requestMap THEN Ret(s, FALSE)
        ELSE IF afterId = 0 THEN Ret(s, FALSE)
        ELSE IF dcWithShift = 0 THEN Ret(s, FALSE)
        ELSE IF cleared THEN Ret(resent, TRUE)
        ELSE IF Contains(waiters, afterId) THEN Ret(marked, TRUE)
        ELSE IF pos = 0 THEN Ret(s, TRUE)
        ELSE Ret(checkDelayedRequests(inserted), TRUE)

\* The dispatch of onErrorDefault sending every FILE_ID_INVALID to the
\* unauthorized branch, whether or not the id is in _badGuestDcRequests.
ErrorDefaultIgnoresBadGuestSet(s, requestId, error) ==
    IF IsMigrate(error) THEN MigrateBranch(s, requestId, error)
    ELSE IF IsTransient(error) \/ IsFloodWait(error) THEN DelayBranch(s, requestId, error)
    ELSE IF \/ error.code = 401 /\ error.type # "AUTH_KEY_PERM_EMPTY"
            \/ IsBadGuestDc(error)
         THEN UnauthorizedBranch(s, requestId, error)
    ELSE IF error.type \in {"CONNECTION_NOT_INITED", "CONNECTION_LAYER_INVALID"}
         THEN LayerBranch(s, requestId, error)
    ELSE IF error.type = "MSG_WAIT_FAILED" THEN WaitBranch(s, requestId, error)
    ELSE Ret(IF IsBadGuestDc(error)
             THEN [s EXCEPT !.badGuestDcRequests = @ \ {requestId}] ELSE s,
             FALSE)

\* Private::onErrorDefault: the branches in the order of the code.
ErrorDefault(s, requestId, error) ==
    IF IsMigrate(error) THEN MigrateBranch(s, requestId, error)
    ELSE IF IsTransient(error) \/ IsFloodWait(error) THEN DelayBranch(s, requestId, error)
    ELSE IF \/ error.code = 401 /\ error.type # "AUTH_KEY_PERM_EMPTY"
            \/ IsBadGuestDc(error) /\ requestId \notin s.badGuestDcRequests
         THEN UnauthorizedBranch(s, requestId, error)
    ELSE IF error.type \in {"CONNECTION_NOT_INITED", "CONNECTION_LAYER_INVALID"}
         THEN LayerBranch(s, requestId, error)
    ELSE IF error.type = "MSG_WAIT_FAILED" THEN WaitBranch(s, requestId, error)
    ELSE Ret(IF IsBadGuestDc(error)
             THEN [s EXCEPT !.badGuestDcRequests = @ \ {requestId}] ELSE s,
             FALSE)

\* onErrorDefault with its verdict kept in "policy" for the claims to read.
onErrorDefault(s, requestId, error) ==
    LET Verdict(d) ==
            Ret([d.s EXCEPT !.policy = IF d.r THEN "handled" ELSE "unhandled"], d.r)
    IN  Verdict(ErrorDefault(s, requestId, error))

\* ------------------------------------------------------- auth export / import

\* Private::exportDone: the import is sent pinned to the export's target.
exportDone(s, requestId) ==
    IF requestId \notin DOMAIN s.authExportRequests THEN s
    ELSE [send(s, "import", s.authExportRequests[requestId], TRUE, 0)
             EXCEPT !.authExportRequests = Erase(@, requestId)]

\* exportFail leaving the waiter list as it is.
exportFailKeepsWaiters(s, error, requestId) ==
    IF isDefaultHandledError(error) THEN Ret(s, FALSE) ELSE Ret(s, TRUE)

\* Private::exportFail.
exportFail(s, error, requestId) ==
    IF isDefaultHandledError(error) THEN Ret(s, FALSE)
    ELSE IF requestId \in DOMAIN s.authExportRequests
         THEN Ret(SetWaiters(s, BareDcId(s.authExportRequests[requestId]), <<>>), TRUE)
         ELSE Ret(s, TRUE)

\* The loop of Private::importDone over the waiters of newdc, from the i-th on.
RECURSIVE ResendWaiters(_, _, _, _)
ResendWaiters(s, waiters, i, newdc) ==
    IF i > Len(waiters) THEN s
    ELSE LET waitedRequestId == waiters[i]
             changed == changeRequestByDc(s, waitedRequestId, newdc)
             shiftedDcId == queryRequestByDc(changed, waitedRequestId)
         IN  ResendWaiters(
                 IF waitedRequestId \notin DOMAIN s.requestMap \/ shiftedDcId = 0 THEN s
                 ELSE sendPreparedTo(
                          IF shiftedDcId < 0 THEN setMainDcId(changed, newdc) ELSE changed,
                          shiftedDcId, waitedRequestId),
                 waiters, i + 1, newdc)

\* Private::importDone.
importDone(s, requestId) ==
    LET shiftedDcId == queryRequestByDc(s, requestId)
        newdc == BareDcId(shiftedDcId)
    IN  IF shiftedDcId = 0 THEN s
        ELSE SetWaiters(ResendWaiters(s, Waiters(s, newdc), 1, newdc), newdc, <<>>)

\* Private::importFail.
importFail(s, error, requestId) ==
    IF isDefaultHandledError(error) THEN Ret(s, FALSE) ELSE Ret(s, TRUE)

\* --------------------------------------------------------------- key registry

\* The key _keysForWrite holds for dcId, NoKey when it has no entry.
StoredKey(s, dcId) == IF dcId \in s.keysForWrite THEN s.keyValues[dcId] ELSE NoKey

\* Private::dcTemporaryKeyChanged: the event is fired.
dcTemporaryKeyChanged(s, dcId) == LogCall(s, "dcTemporaryKeyChanged", dcId, TRUE)

\* dcPersistentKeyChanged that stores and writes whatever the entry was.
dcPersistentKeyChangedAlwaysWrites(s, dcId, persistentKey) ==
    LET fired == dcTemporaryKeyChanged(s, dcId)
        stored == IF persistentKey = NoKey
                  THEN [fired EXCEPT !.keysForWrite = @ \ {dcId},
                                     !.keyValues = Erase(@, dcId)]
                  ELSE [fired EXCEPT !.keysForWrite = @ \cup {dcId},
                                     !.keyValues = Put(@, dcId, persistentKey)]
    IN  IF isTemporaryDcId(dcId) THEN fired
        ELSE LogCall(stored, "writeMtpData", dcId, TRUE)

\* Private::dcPersistentKeyChanged.
dcPersistentKeyChanged(s, dcId, persistentKey) ==
    LET fired == dcTemporaryKeyChanged(s, dcId)
        stored == IF persistentKey = NoKey
                  THEN [fired EXCEPT !.keysForWrite = @ \ {dcId},
                                     !.keyValues = Erase(@, dcId)]
                  ELSE [fired EXCEPT !.keysForWrite = @ \cup {dcId},
                                     !.keyValues = Put(@, dcId, persistentKey)]
    IN  IF isTemporaryDcId(dcId) THEN fired
        ELSE IF dcId \in s.keysForWrite /\ s.keyValues[dcId] = persistentKey THEN fired
        ELSE IF dcId \notin s.keysForWrite /\ persistentKey = NoKey THEN fired
        ELSE LogCall(stored, "writeMtpData", dcId, TRUE)

\* Private::restart(shiftedDcId): every session of the bare dc is restarted.
RECURSIVE RestartSessions(_, _)
RestartSessions(s, left) ==
    IF left = {} THEN s
    ELSE LET shiftedDcId == CHOOSE d \in left : \A e \in left : d <= e
         IN  RestartSessions(LogCall(s, "restart", shiftedDcId, TRUE), left \ {shiftedDcId})

\* Private::keyDestroyedOnServer; confirmed is what
\* Dcenter::destroyConfirmedForgottenKey(keyId) answers.
keyDestroyedOnServer(s, shiftedDcId, confirmed) ==
    LET dcId == BareDcId(shiftedDcId)
        forgotten == IF dcId \in s.dcenters /\ confirmed
                     THEN dcPersistentKeyChanged(s, dcId, NoKey)
                     ELSE s
    IN  RestartSessions(forgotten, {d \in s.sessions : BareDcId(d) = dcId})

\* -------------------------------------------------------------------- loaders

\* Private::requestConfig: a ConfigLoader is made and load() called, unless one
\* is held or the instance destroys keys.
requestConfig(s) ==
    IF s.configLoader \/ s.mainDcId = kNoneMainDc THEN s
    ELSE LogCall([s EXCEPT !.configLoader = TRUE], "ConfigLoader", 0, TRUE)

\* Private::requestConfigIfOld; old is whether crl::now() - _lastConfigLoadedTime
\* has reached the timeout.
requestConfigIfOld(s, old) == IF old THEN requestConfig(s) ELSE s

\* Private::requestConfigIfExpired; expired is whether _configExpiresAt has
\* passed, otherwise the call is repeated later.
requestConfigIfExpired(s, expired) == IF expired THEN requestConfig(s) ELSE s

\* Private::configLoadDone: the loader is dropped, then requestConfigIfExpired.
configLoadDone(s, expired) ==
    requestConfigIfExpired([s EXCEPT !.configLoader = FALSE], expired)

\* Private::syncHttpUnixtime; httpValid is base::unixtime::http_valid().
syncHttpUnixtime(s, httpValid) ==
    IF httpValid \/ s.httpUnixtimeLoader # "none" THEN s
    ELSE LogCall([s EXCEPT !.httpUnixtimeLoader = "loading"], "SpecialConfigRequest", 0, TRUE)

\* requestCDNConfig that looks at no marker.
requestCDNConfigUnguarded(s) ==
    IF s.mainDcId = kNoneMainDc THEN s
    ELSE [send(s, "cdnConfig", 0, FALSE, 0) EXCEPT !.cdnConfigLoadRequestId = NextRequestId(s)]

\* Private::requestCDNConfig: help.getCdnConfig goes to the main dc with a done
\* handler and no fail handler, its id is kept in _cdnConfigLoadRequestId.
requestCDNConfig(s) ==
    IF s.cdnConfigLoadRequestId # 0 \/ s.mainDcId = kNoneMainDc THEN s
    ELSE [send(s, "cdnConfig", 0, FALSE, 0) EXCEPT !.cdnConfigLoadRequestId = NextRequestId(s)]

\* ------------------------------------------------------------------ callbacks

\* The fail handler scheduleKeyDestroy gives to auth.logOut.
logOutFail(s, error, requestId) ==
    IF isDefaultHandledError(error) THEN Ret(s, FALSE)
    ELSE Ret(performKeyDestroy(s, s.keyRequests[requestId]), TRUE)

\* The done handler that kills no session on destroy_auth_key_fail.
destroyKeyDoneKeepsSession(s, requestId) ==
    keyWasPossiblyDestroyed(s, s.keyRequests[requestId])

\* The done handler performKeyDestroy gives to destroy_auth_key; s.result is
\* the type of the result.
destroyKeyDone(s, requestId) ==
    LET shiftedDcId == s.keyRequests[requestId]
    IN  keyWasPossiblyDestroyed(
            IF s.result = "destroy_auth_key_fail" THEN killSession(s, shiftedDcId) ELSE s,
            shiftedDcId)

\* (*h.onFail)(requestId, error) for the handlers stored under kind h; a user's
\* handler answers failRet.
CallFail(s, h, requestId, error, failRet) ==
    LET r == IF h = "export" THEN exportFail(s, error, requestId)
             ELSE IF h = "import" THEN importFail(s, error, requestId)
             ELSE IF h = "logOut" THEN logOutFail(s, error, requestId)
             ELSE IF h = "destroyKey"
                  THEN Ret(keyWasPossiblyDestroyed(s, s.keyRequests[requestId]), TRUE)
             ELSE IF h = "cdnConfig" THEN Ret(s, ~isDefaultHandledError(error))
             ELSE Ret(s, failRet)
    IN  Ret(LogCall(r.s, "fail", requestId, r.r), r.r)

\* (*h.onDone)(requestId, from, end); a user's handler answers doneRet, which is
\* FALSE when it could not parse the response.
CallDone(s, h, requestId, doneRet) ==
    LET Log(r) == Ret(LogCall(r.s, "done", requestId, r.r), r.r)
    IN  Log(IF h = "export" THEN Ret(exportDone(s, requestId), TRUE)
            ELSE IF h = "import" THEN Ret(importDone(s, requestId), TRUE)
            ELSE IF h = "logOut"
                 THEN Ret(performKeyDestroy(s, s.keyRequests[requestId]), TRUE)
            ELSE IF h = "destroyKey" THEN Ret(destroyKeyDone(s, requestId), TRUE)
            ELSE IF h = "cdnConfig" THEN Ret([s EXCEPT !.cdnConfigLoadRequestId = 0], TRUE)
            ELSE Ret(s, doneRet))

\* rpcErrorOccured that tells the fail handler of an error the policy retries.
rpcErrorOccuredTellsHandled(s, requestId, h, err, failRet) ==
    LET Decide(consulted) ==
            Ret(CallFail(consulted.s, h, requestId, err, failRet).s, ~consulted.r)
        Start(first) ==
            IF first.r THEN Ret(first.s, TRUE)
            ELSE Decide(onErrorDefault(first.s, requestId, err))
    IN  Start(IF isDefaultHandledError(err) THEN CallFail(s, h, requestId, err, failRet)
              ELSE Ret(s, FALSE))

\* rpcErrorOccured that asks for the clean-up of a request the policy retries.
rpcErrorOccuredDropsHandled(s, requestId, h, err, failRet) ==
    LET Decide(consulted) ==
            IF consulted.r THEN Ret(consulted.s, TRUE)
            ELSE Ret(CallFail(consulted.s, h, requestId, err, failRet).s, TRUE)
        Start(first) ==
            IF first.r THEN Ret(first.s, TRUE)
            ELSE Decide(onErrorDefault(first.s, requestId, err))
    IN  Start(IF isDefaultHandledError(err) THEN CallFail(s, h, requestId, err, failRet)
              ELSE Ret(s, FALSE))

\* Private::rpcErrorOccured: r is TRUE when the request data is to be cleaned.
rpcErrorOccured(s, requestId, h, err, failRet) ==
    LET Decide(consulted) ==
            IF consulted.r THEN Ret(consulted.s, FALSE)
            ELSE Ret(CallFail(consulted.s, h, requestId, err, failRet).s, TRUE)
        Start(first) ==
            IF first.r THEN Ret(first.s, TRUE)
            ELSE Decide(onErrorDefault(first.s, requestId, err))
    IN  Start(IF isDefaultHandledError(err) THEN CallFail(s, h, requestId, err, failRet)
              ELSE Ret(s, FALSE))

\* The handleError lambda of Private::execCallback.
handleError(s, requestId, h, error, failRet) ==
    LET Settle(e) ==
            IF e.r THEN unregisterRequest(e.s, requestId)
            ELSE [e.s EXCEPT !.parserMap = Emplace(@, requestId, h)]
    IN  Settle(rpcErrorOccured(s, requestId, h, error, failRet))

\* execCallback without the unregisterRequest that follows the done handler.
execCallbackKeepsRequest(s, requestId, frame, error, doneRet, failRet) ==
    LET found == requestId \in DOMAIN s.parserMap
        h == s.parserMap[requestId]
        taken == [s EXCEPT !.parserMap = Erase(@, requestId)]
        Parsed(done) ==
            IF done.r THEN done.s
            ELSE handleError(done.s, requestId, h, Local("RESPONSE_PARSE_FAILED"), failRet)
    IN  IF ~found THEN unregisterRequest(s, requestId)
        ELSE IF frame = "result"
             THEN Parsed(CallDone(taken, h, requestId, doneRet))
        ELSE handleError(taken, requestId, h,
                         IF frame = "error" THEN error
                         ELSE Local("RESPONSE_PARSE_FAILED"),
                         failRet)

\* execCallback that takes an rpc_error for a request without handlers to the
\* error policy.
execCallbackAsksPolicy(s, requestId, frame, error, doneRet, failRet) ==
    LET found == requestId \in DOMAIN s.parserMap
        h == s.parserMap[requestId]
        taken == [s EXCEPT !.parserMap = Erase(@, requestId)]
        Parsed(done) ==
            IF done.r THEN done.s
            ELSE handleError(done.s, requestId, h, Local("RESPONSE_PARSE_FAILED"), failRet)
        Asked(e) == IF e.r THEN e.s ELSE unregisterRequest(e.s, requestId)
    IN  IF ~found
        THEN IF frame = "error" THEN Asked(onErrorDefault(s, requestId, error))
             ELSE unregisterRequest(s, requestId)
        ELSE IF frame = "result"
             THEN unregisterRequest(Parsed(CallDone(taken, h, requestId, doneRet)),
                                    requestId)
        ELSE handleError(taken, requestId, h,
                         IF frame = "error" THEN error
                         ELSE Local("RESPONSE_PARSE_FAILED"),
                         failRet)

\* Private::execCallback.  frame is "empty", "error" (an rpc_error that reads as
\* error), "badError" (an rpc_error that does not parse) or "result".
execCallback(s, requestId, frame, error, doneRet, failRet) ==
    LET found == requestId \in DOMAIN s.parserMap
        h == s.parserMap[requestId]
        taken == [s EXCEPT !.parserMap = Erase(@, requestId)]
        Parsed(done) ==
            IF done.r THEN done.s
            ELSE handleError(done.s, requestId, h, Local("RESPONSE_PARSE_FAILED"), failRet)
    IN  IF ~found THEN unregisterRequest(s, requestId)
        ELSE IF frame = "result"
             THEN unregisterRequest(Parsed(CallDone(taken, h, requestId, doneRet)),
                                    requestId)
        ELSE handleError(taken, requestId, h,
                         IF frame = "error" THEN error
                         ELSE Local("RESPONSE_PARSE_FAILED"),
                         failRet)

\* Private::clearCallbacks(requestId, errorCode).
clearCallbacks(s, requestId, errorCode, failRet) ==
    LET found == requestId \in DOMAIN s.parserMap
        taken == [s EXCEPT !.parserMap = Erase(@, requestId)]
    IN  IF errorCode # 0 /\ found
        THEN rpcErrorOccured(taken, requestId, s.parserMap[requestId],
                             Local("CLEAR_CALLBACK"), failRet).s
        ELSE taken

\* cancel that leaves the handlers of the request in _parserMap.
cancelKeepsCallbacks(s, requestId) ==
    LET shiftedDcId == queryRequestByDc(s, requestId)
        msgId == IF requestId \in DOMAIN s.requestMap THEN s.requestMap[requestId].msgId
                 ELSE 0
        Tell(u) ==
            IF shiftedDcId = 0 THEN u
            ELSE [getSession(u, Abs(shiftedDcId)) EXCEPT !.cancels = Append(@,
                     [dc |-> SessionKey(u, Abs(shiftedDcId)), id |-> requestId,
                      msgId |-> msgId])]
    IN  IF requestId = 0 THEN s ELSE Tell(unregisterRequest(s, requestId))

\* cancel that reads the message id after the payload was erased.
cancelLosesMsgId(s, requestId) ==
    LET shiftedDcId == queryRequestByDc(s, requestId)
        Tell(u) ==
            IF shiftedDcId = 0 THEN u
            ELSE [getSession(u, Abs(shiftedDcId)) EXCEPT !.cancels = Append(@,
                     [dc |-> SessionKey(u, Abs(shiftedDcId)), id |-> requestId,
                      msgId |-> 0])]
    IN  IF requestId = 0 THEN s
        ELSE clearCallbacks(Tell(unregisterRequest(s, requestId)), requestId, 0, FALSE)

\* cancel that leaves the payload and the routing of the request stored.
cancelKeepsRequest(s, requestId) ==
    LET shiftedDcId == queryRequestByDc(s, requestId)
        msgId == IF requestId \in DOMAIN s.requestMap THEN s.requestMap[requestId].msgId
                 ELSE 0
        Tell(u) ==
            IF shiftedDcId = 0 THEN u
            ELSE [getSession(u, Abs(shiftedDcId)) EXCEPT !.cancels = Append(@,
                     [dc |-> SessionKey(u, Abs(shiftedDcId)), id |-> requestId,
                      msgId |-> msgId])]
    IN  IF requestId = 0 THEN s
        ELSE clearCallbacks(Tell(s), requestId, 0, FALSE)

\* Private::cancel.
cancel(s, requestId) ==
    LET shiftedDcId == queryRequestByDc(s, requestId)
        msgId == IF requestId \in DOMAIN s.requestMap THEN s.requestMap[requestId].msgId
                 ELSE 0
        Tell(u) ==
            IF shiftedDcId = 0 THEN u
            ELSE [getSession(u, Abs(shiftedDcId)) EXCEPT !.cancels = Append(@,
                     [dc |-> SessionKey(u, Abs(shiftedDcId)), id |-> requestId,
                      msgId |-> msgId])]
    IN  IF requestId = 0 THEN s
        ELSE clearCallbacks(Tell(unregisterRequest(s, requestId)), requestId, 0, FALSE)

\* -------------------------------------------------------------------- actions

\* What the callers pass to Instance::send: [handlers, shiftedDcId, after], with
\* shiftedDcId 0 for the main dc, a bare shift for a role of the main dc, or a
\* dc with or without a shift; after is 0 or 1 (depend on the request before).
SendShapes ==
    {[handlers |-> "user", shiftedDcId |-> d, after |-> 0] :
        d \in {0, 1, ShiftDcId(0, 1), ShiftDcId(2, 1)}}
    \cup {[handlers |-> "none", shiftedDcId |-> 0, after |-> 0]}

\* Private::start in normal mode, run by the constructor: mainDc is
\* config.mainDcId; the main session is started on it, and the requestConfig
\* that ends start creates the config loader.
StartNormal(mainDc) ==
    LET main == IF mainDc # kNotSetMainDc THEN mainDc ELSE kDefaultMainDc
    IN  /\ GlobalAtomicRequestId = 0
        /\ mainDcId = main
        /\ mainDcIdForced = (mainDc # kNotSetMainDc)
        /\ dcenters = {main}
        /\ mainSession = main
        /\ sessions = {main}
        /\ sessionsToDestroy = {}
        /\ requestsByDc = EmptyMap
        /\ authExportRequests = EmptyMap
        /\ parserMap = EmptyMap
        /\ requestMap = EmptyMap
        /\ delayedRequests = <<>>
        /\ requestsDelays = EmptyMap
        /\ badGuestDcRequests = {}
        /\ authWaiters = EmptyMap
        /\ keysForWrite = {}
        /\ keyValues = EmptyMap
        /\ violated = {}
        /\ keyRequests = EmptyMap
        /\ keyDestroys = <<>>
        /\ allKeysDestroyed = 0
        /\ configLoader = TRUE
        /\ httpUnixtimeLoader = "none"
        /\ cdnConfigLoadRequestId = 0
        /\ checkDelayedTimer = -1
        /\ authorized = TRUE
        /\ inflight = {}
        /\ errorsSeen = 0
        /\ cancelled = {}
        /\ last = [op |-> "start", id |-> 0, err |-> NoError, policy |-> "none",
                   again |-> FALSE]
        /\ sent = <<>>
        /\ cancels = <<>>
        /\ called = <<>>
        /\ threadResult = [thread \in Threads |-> 0]
        /\ issued = <<>>

Init == StartNormal(kNotSetMainDc)

\* The instance in key-destroyer mode as its constructor leaves it and start
\* finds it after reading config.mainDcId, which is kNoneMainDc.
Constructed ==
    [GlobalAtomicRequestId |-> 0, mainDcId |-> kNoneMainDc, mainDcIdForced |-> TRUE,
     dcenters |-> {}, mainSession |-> 0, sessions |-> {}, sessionsToDestroy |-> {},
     requestsByDc |-> EmptyMap, authExportRequests |-> EmptyMap, parserMap |-> EmptyMap,
     requestMap |-> EmptyMap, delayedRequests |-> <<>>, requestsDelays |-> EmptyMap,
     badGuestDcRequests |-> {}, authWaiters |-> EmptyMap, keysForWrite |-> {},
     keyValues |-> EmptyMap, violated |-> {},
     keyRequests |-> EmptyMap, keyDestroys |-> <<>>, allKeysDestroyed |-> 0,
     configLoader |-> FALSE, httpUnixtimeLoader |-> "none", cdnConfigLoadRequestId |-> 0,
     checkDelayedTimer |-> -1, authorized |-> TRUE, inflight |-> {}, errorsSeen |-> 0,
     cancelled |-> {}, policy |-> "none", result |-> "ok",
     sent |-> <<>>, cancels |-> <<>>, called |-> <<>>]

\* The state is the instance s, as an operation named op left it.
StartsAs(s, op) ==
    /\ GlobalAtomicRequestId = s.GlobalAtomicRequestId
    /\ mainDcId = s.mainDcId
    /\ mainDcIdForced = s.mainDcIdForced
    /\ dcenters = s.dcenters
    /\ mainSession = s.mainSession
    /\ sessions = s.sessions
    /\ sessionsToDestroy = s.sessionsToDestroy
    /\ requestsByDc = s.requestsByDc
    /\ authExportRequests = s.authExportRequests
    /\ parserMap = s.parserMap
    /\ requestMap = s.requestMap
    /\ delayedRequests = s.delayedRequests
    /\ requestsDelays = s.requestsDelays
    /\ badGuestDcRequests = s.badGuestDcRequests
    /\ authWaiters = s.authWaiters
    /\ keysForWrite = s.keysForWrite
    /\ keyValues = KeyValuesOf(s)
    /\ violated = s.violated
    /\ keyRequests = s.keyRequests
    /\ keyDestroys = s.keyDestroys
    /\ allKeysDestroyed = s.allKeysDestroyed
    /\ configLoader = s.configLoader
    /\ httpUnixtimeLoader = s.httpUnixtimeLoader
    /\ cdnConfigLoadRequestId = s.cdnConfigLoadRequestId
    /\ checkDelayedTimer = s.checkDelayedTimer
    /\ authorized = s.authorized
    /\ inflight = s.inflight
    /\ errorsSeen = s.errorsSeen
    /\ cancelled = s.cancelled
    /\ last = [op |-> op, id |-> 0, err |-> NoError, policy |-> "none", again |-> FALSE]
    /\ sent = s.sent
    /\ cancels = s.cancels
    /\ called = s.called
    /\ threadResult = [thread \in Threads |-> 0]
    /\ issued = <<>>

\* Private::start in key-destroyer mode with the keys of config.keys, given by
\* The instance in normal mode on the default main dc, as start leaves it, in
\* a process whose request id counter stands at counter.
StartedAt(counter) ==
    StartsAs([Constructed EXCEPT !.GlobalAtomicRequestId = counter,
                                 !.mainDcId = kDefaultMainDc, !.mainDcIdForced = FALSE,
                                 !.dcenters = {kDefaultMainDc},
                                 !.mainSession = kDefaultMainDc,
                                 !.sessions = {kDefaultMainDc}, !.configLoader = TRUE],
             "start")

\* their bare dcs: every key is placed under a shifted dc of its own, then a
\* session is started for every control block; requestConfig ends it.
StartDestroyer(keys) ==
    LET Sessions(placed) == StartSessions(placed, placed.dcenters)
    IN  StartsAs(requestConfig(Sessions(PlaceKeys(Constructed, keys, 1))), "start")

\* Private::isKeysDestroyer, as start leaves it readable from _mainDcId (line 303).
isKeysDestroyer == mainDcId = kNoneMainDc

\* Ids a run with that many sends by callers may allocate: theirs, and one auth
\* export with its import.
MaxRequests(sends) == sends + 2

\* Instance::send by a caller; the callers send at most "sends" requests.
Send(shape, sends) ==
    LET afterRequestId == IF shape.after = 0 THEN 0 ELSE GlobalAtomicRequestId
    IN  /\ NextRequestId(Cur) <= sends
        /\ Becomes(send(Cur, shape.handlers, shape.shiftedDcId, FALSE, afterRequestId),
                   "send", NextRequestId(Cur), NoError)

\* Instance::cancel by a caller.
Cancel(requestId) ==
    /\ requestId <= GlobalAtomicRequestId
    /\ Becomes([cancel(Cur, requestId) EXCEPT !.cancelled = @ \cup {requestId}],
               "cancel", requestId, NoError)

\* A session delivers the response to a request it was handed: execCallback.
\* auth is what Main::Session::Exists() answers while it runs; the sessions
\* deliver at most "errors" rpc_error frames and the run allocates at most
\* "ids" request ids.
ExecCallback(requestId, frame, error, doneRet, failRet, auth, errors, ids) ==
    LET taken == [Cur EXCEPT !.inflight = @ \ {requestId},
                             !.errorsSeen = IF frame = "error" THEN @ + 1 ELSE @,
                             !.authorized = auth]
        Within(after) ==
            /\ after.GlobalAtomicRequestId <= ids
            /\ Becomes(after, frame, requestId, error)
    IN  /\ requestId \in inflight
        /\ frame = "error" => errorsSeen < errors
        /\ Within(execCallback(taken, requestId, frame, error, doneRet, failRet))

\* An rpc_error frame: Main::Session::Exists() is read by the 401 branch only.
ExecError(requestId, error, failRet, auth, errors, ids) ==
    /\ error \notin AuthErrors => auth = authorized
    /\ ExecCallback(requestId, "error", error, TRUE, failRet, auth, errors, ids)

\* Instance::rpcErrorOccured called from outside with the caller's own fail
\* handler; what it returns goes to the caller.
RpcErrorOccured(requestId, error, failRet, errors) ==
    /\ errorsSeen < errors
    /\ Becomes(rpcErrorOccured([Cur EXCEPT !.errorsSeen = @ + 1], requestId, "user", error,
                               failRet).s,
               "rpcError", requestId, error)

\* A session gave up on requestId: clearCallbacksDelayed with one entry, whose
\* queued closure runs Private::clearCallbacks(list).
ClearCallbacks(requestId, errorCode, failRet) ==
    Becomes(unregisterRequest(clearCallbacks(Cur, requestId, errorCode, failRet), requestId),
            "clearCallbacks", requestId, NoError)

\* Instance::killSession called by the application, and the killSession of
\* logoutGuestDone.
KillSession(shiftedDcId) ==
    Becomes(killSession(Cur, shiftedDcId), "killSession", shiftedDcId, NoError)

\* A session delivers the result of destroy_auth_key for requestId.
KeyDestroyResult(requestId, result) ==
    LET taken == [Cur EXCEPT !.inflight = @ \ {requestId}, !.result = result]
    IN  /\ requestId \in inflight
        /\ requestId \in DOMAIN parserMap /\ parserMap[requestId] = "destroyKey"
        /\ Becomes(execCallback(taken, requestId, "result", NoError, TRUE, FALSE),
                   result, requestId, NoError)

\* A session delivers the result of auth.logOut for requestId.
LogOutDone(requestId, ids) ==
    /\ requestId \in DOMAIN parserMap /\ parserMap[requestId] = "logOut"
    /\ ExecCallback(requestId, "result", NoError, TRUE, FALSE, authorized, MaxKeyErrors, ids)

\* The first of the queued closures of keyWasPossiblyDestroyed runs.
KeyDestroyCompleted ==
    /\ keyDestroys # <<>>
    /\ Becomes(completedKeyDestroy([Cur EXCEPT !.keyDestroys = Tail(@)], Head(keyDestroys)),
               "completedKeyDestroy", Head(keyDestroys), NoError)

\* Instance::addKeysForDestroy called by the application; the run allocates
\* at most "ids" request ids.
AddKeysForDestroy(keys, ids) ==
    LET Within(after) ==
            /\ after.GlobalAtomicRequestId <= ids
            /\ Becomes(after, "addKeysForDestroy", 0, NoError)
    IN  /\ isKeysDestroyer
        /\ Within(addKeysForDestroy(Cur, keys, 1))

\* A thread runs the first statement of GetNextRequestId, the atomic
\* `++GlobalAtomicRequestId`, and keeps the value in its local "result"; the
\* threads allocate at most "allocations" ids.
Increment(thread, allocations) ==
    /\ threadResult[thread] = 0
    /\ Len(issued) < allocations
    /\ GlobalAtomicRequestId' = GlobalAtomicRequestId + 1
    /\ threadResult' = [threadResult EXCEPT ![thread] = GlobalAtomicRequestId + 1]
    /\ issued' = Append(issued, GlobalAtomicRequestId + 1)
    /\ last' = [op |-> "increment", id |-> GlobalAtomicRequestId + 1, err |-> NoError,
                policy |-> "none", again |-> FALSE]
    /\ sent' = <<>> /\ cancels' = <<>> /\ called' = <<>>
    /\ UNCHANGED <<mainDcId, mainDcIdForced, dcenters, mainSession, sessions,
                   sessionsToDestroy, requestsByDc, authExportRequests, parserMap,
                   requestMap, delayedRequests, requestsDelays, badGuestDcRequests,
                   authWaiters, keysForWrite, keyValues, violated, keyRequests,
                   keyDestroys,
                   allKeysDestroyed, configLoader, httpUnixtimeLoader,
                   cdnConfigLoadRequestId, checkDelayedTimer, authorized, inflight,
                   errorsSeen, cancelled>>

\* The rest of GetNextRequestId without the store of 0.
ResetAndReturnNoStore(thread) ==
    /\ threadResult[thread] # 0
    /\ threadResult' = [threadResult EXCEPT ![thread] = 0]
    /\ last' = [op |-> "return", id |-> threadResult[thread], err |-> NoError,
                policy |-> "none", again |-> FALSE]
    /\ sent' = <<>> /\ cancels' = <<>> /\ called' = <<>>
    /\ UNCHANGED <<GlobalAtomicRequestId, mainDcId, mainDcIdForced, dcenters,
                   mainSession, sessions,
                   sessionsToDestroy, requestsByDc, authExportRequests, parserMap,
                   requestMap, delayedRequests, requestsDelays, badGuestDcRequests,
                   authWaiters, keysForWrite, keyValues, violated, keyRequests,
                   keyDestroys,
                   allKeysDestroyed, configLoader, httpUnixtimeLoader,
                   cdnConfigLoadRequestId, checkDelayedTimer, authorized, inflight,
                   errorsSeen, cancelled, issued>>

\* The thread runs the rest of GetNextRequestId: the comparison of "result"
\* with INT_MAX / 2, the store of 0 when they are equal, and the return.
ResetAndReturn(thread) ==
    /\ threadResult[thread] # 0
    /\ GlobalAtomicRequestId' =
           IF threadResult[thread] = kRequestIdWrap THEN 0 ELSE GlobalAtomicRequestId
    /\ threadResult' = [threadResult EXCEPT ![thread] = 0]
    /\ last' = [op |-> "return", id |-> threadResult[thread], err |-> NoError,
                policy |-> "none", again |-> FALSE]
    /\ sent' = <<>> /\ cancels' = <<>> /\ called' = <<>>
    /\ UNCHANGED <<mainDcId, mainDcIdForced, dcenters, mainSession, sessions,
                   sessionsToDestroy, requestsByDc, authExportRequests, parserMap,
                   requestMap, delayedRequests, requestsDelays, badGuestDcRequests,
                   authWaiters, keysForWrite, keyValues, violated, keyRequests,
                   keyDestroys,
                   allKeysDestroyed, configLoader, httpUnixtimeLoader,
                   cdnConfigLoadRequestId, checkDelayedTimer, authorized, inflight,
                   errorsSeen, cancelled, issued>>

\* Instance::requestConfig called by the application.
RequestConfig == Becomes(requestConfig(Cur), "requestConfig", 0, NoError)

\* Instance::requestConfigIfOld called by the application.
RequestConfigIfOld(old) ==
    Becomes(requestConfigIfOld(Cur, old), "requestConfigIfOld", 0, NoError)

\* The requestConfigIfExpired that configLoadDone left for later runs.
RequestConfigIfExpired(expired) ==
    Becomes(requestConfigIfExpired(Cur, expired), "requestConfigIfExpired", 0, NoError)

\* The config loader delivers help.getConfig: configLoadDone.
ConfigLoadDone(expired) ==
    /\ configLoader
    /\ Becomes(configLoadDone(Cur, expired), "configLoadDone", 0, NoError)

\* Instance::syncHttpUnixtime called by the application; the id recorded is 1
\* when the http time was valid.
SyncHttpUnixtime(httpValid) ==
    Becomes(syncHttpUnixtime(Cur, httpValid), "syncHttpUnixtime",
            IF httpValid THEN 1 ELSE 0, NoError)

\* The SpecialConfigRequest calls the callback it was made with, which queues
\* the reset of _httpUnixtimeLoader.
UnixtimeLoaded ==
    /\ httpUnixtimeLoader = "loading"
    /\ Becomes([Cur EXCEPT !.httpUnixtimeLoader = "done"], "unixtimeLoaded", 0, NoError)

\* The queued closure runs: _httpUnixtimeLoader = nullptr.
UnixtimeLoaderReset ==
    /\ httpUnixtimeLoader = "done"
    /\ Becomes([Cur EXCEPT !.httpUnixtimeLoader = "none"], "unixtimeLoaderReset", 0, NoError)

\* Instance::requestCDNConfig called by the application; the run allocates at
\* most "ids" request ids.
RequestCDNConfig(ids) ==
    LET Within(after) ==
            /\ after.GlobalAtomicRequestId <= ids
            /\ Becomes(after, "requestCDNConfig", 0, NoError)
    IN  Within(requestCDNConfig(Cur))

\* Instance::setMainDcId called by the application.
SetMainDcId(mainDc) ==
    Becomes(setMainDcId(Cur, mainDc), "setMainDcId", mainDc, NoError)

\* Instance::suggestMainDcId called by the application.
SuggestMainDcId(mainDc) ==
    Becomes(suggestMainDcId(Cur, mainDc), "suggestMainDcId", mainDc, NoError)

\* Instance::dcPersistentKeyChanged, called by a session.
DcPersistentKeyChanged(dcId, persistentKey) ==
    Becomes(dcPersistentKeyChanged(Cur, dcId, persistentKey),
            "dcPersistentKeyChanged", dcId, NoError)

\* Instance::dcTemporaryKeyChanged, called by a session.
DcTemporaryKeyChanged(dcId) ==
    Becomes(dcTemporaryKeyChanged(Cur, dcId), "dcTemporaryKeyChanged", dcId, NoError)

\* Instance::keyDestroyedOnServer, called by a session.
KeyDestroyedOnServer(shiftedDcId, confirmed) ==
    Becomes(keyDestroyedOnServer(Cur, shiftedDcId, confirmed),
            "keyDestroyedOnServer", shiftedDcId, NoError)

\* _checkDelayedTimer fires after the time it was armed for: that time passes,
\* then its callback checkDelayedRequests runs.
TimerFired ==
    LET passed == [Cur EXCEPT
                      !.delayedRequests =
                          [i \in 1..Len(@) |-> [@[i] EXCEPT !.due = @ - checkDelayedTimer]],
                      !.checkDelayedTimer = -1]
    IN  /\ checkDelayedTimer >= 0
        /\ Becomes(checkDelayedRequests(passed), "timer", 0, NoError)

\* The closure killSession queued: _sessionsToDestroy.clear().
SessionsDestroyed ==
    /\ sessionsToDestroy # {}
    /\ Becomes([Cur EXCEPT !.sessionsToDestroy = {}], "sessionsDestroyed", 0, NoError)

\* ------------------------------------------------------------- specifications

\* Any caller against any server: every kind of send, cancel and response.
Next ==
    \/ \E shape \in SendShapes : Send(shape, MaxSends)
    \/ \E requestId \in 1..MaxSends : Cancel(requestId)
    \/ \E requestId \in 1..MaxRequests(MaxSends), error \in ServerErrors,
           failRet \in BOOLEAN, auth \in BOOLEAN :
            ExecError(requestId, error, failRet, auth, MaxErrors, MaxRequests(MaxSends))
    \/ \E requestId \in 1..MaxRequests(MaxSends), frame \in {"empty", "badError"},
           failRet \in BOOLEAN :
            ExecCallback(requestId, frame, NoError, TRUE, failRet, authorized,
                         MaxErrors, MaxRequests(MaxSends))
    \/ \E requestId \in 1..MaxRequests(MaxSends), doneRet \in BOOLEAN, failRet \in BOOLEAN :
            ExecCallback(requestId, "result", NoError, doneRet, failRet, authorized,
                         MaxErrors, MaxRequests(MaxSends))
    \/ TimerFired
    \/ SessionsDestroyed

Spec == Init /\ [][Next]_vars

\* A server that keeps failing: requests meet transient errors only, the timer
\* fires between them, and the caller may give up.
NextBackoff ==
    \/ \E shape \in SendShapes : Send(shape, MaxSends)
    \/ \E requestId \in 1..MaxSends : Cancel(requestId)
    \/ \E requestId \in 1..MaxSends, error \in TransientErrors, failRet \in BOOLEAN :
            ExecError(requestId, error, failRet, authorized, MaxBackoffErrors,
                      MaxRequests(MaxSends))
    \/ TimerFired

SpecBackoff == Init /\ [][NextBackoff]_vars

\* A server that moves requests to other dcs: MIGRATE errors only, delivered
\* in responses and through Instance::rpcErrorOccured for any request id.
NextMigrate ==
    \/ \E shape \in SendShapes : Send(shape, MaxSends)
    \/ \E requestId \in 1..MaxSends : Cancel(requestId)
    \/ \E requestId \in 1..MaxSends, error \in MigrateErrors, failRet \in BOOLEAN :
            ExecError(requestId, error, failRet, authorized, MaxErrors, MaxRequests(MaxSends))
    \/ \E requestId \in 1..MaxRequests(MaxSends), error \in MigrateErrors, failRet \in BOOLEAN :
            RpcErrorOccured(requestId, error, failRet, MaxErrors)
    \/ SessionsDestroyed

SpecMigrate == Init /\ [][NextMigrate]_vars

\* Requests to the main dc and to the guest dc 1.
AuthShapes == {shape \in SendShapes : shape.handlers = "user" /\ shape.shiftedDcId \in {0, 1}}

\* A server that answers with authorization errors or with results: requests
\* of the caller, and the exports and imports the instance sends for them.
NextAuth ==
    \/ \E shape \in AuthShapes : Send(shape, MaxAuthSends)
    \/ \E requestId \in 1..MaxAuthSends : Cancel(requestId)
    \/ \E requestId \in 1..MaxRequests(MaxAuthSends), error \in AuthErrors,
           failRet \in BOOLEAN, auth \in BOOLEAN :
            ExecError(requestId, error, failRet, auth, MaxAuthErrors,
                      MaxRequests(MaxAuthSends))
    \/ \E requestId \in 1..MaxRequests(MaxAuthSends), doneRet \in BOOLEAN, failRet \in BOOLEAN :
            ExecCallback(requestId, "result", NoError, doneRet, failRet, authorized,
                         MaxAuthErrors, MaxRequests(MaxAuthSends))

SpecAuth == Init /\ [][NextAuth]_vars

\* A server that asks for authorization on guest dcs and grants it, with an
\* application that suggests a main dc: requests to the main dc and to dc 1,
\* the exports and imports sent for them, and their results.
NextImport ==
    \/ \E shape \in AuthShapes : Send(shape, MaxAuthSends)
    \/ \E mainDc \in DcIds : SuggestMainDcId(mainDc)
    \/ \E requestId \in 1..MaxRequests(MaxAuthSends), failRet \in BOOLEAN :
            ExecError(requestId, RpcError(401, "AUTH_KEY_UNREGISTERED", 0, FALSE), failRet,
                      authorized, MaxAuthErrors, MaxRequests(MaxAuthSends))
    \/ \E requestId \in 1..MaxRequests(MaxAuthSends), doneRet \in BOOLEAN, failRet \in BOOLEAN :
            ExecCallback(requestId, "result", NoError, doneRet, failRet, authorized,
                         MaxAuthErrors, MaxRequests(MaxAuthSends))
    \/ SessionsDestroyed

SpecImport == Init /\ [][NextImport]_vars

\* Requests to the main dc, alone or after the request sent before them.
QueueShapes == {[handlers |-> "user", shiftedDcId |-> 0, after |-> a] : a \in {0, 1}}

\* The errors that put a request into the delayed queue.
QueueErrors == {RpcError(420, "FLOOD_WAIT", 0, FALSE), RpcError(500, "INTERNAL", 0, FALSE),
                RpcError(400, "MSG_WAIT_FAILED", 0, FALSE)}

\* A server that delays requests, with every way an error reaches the policy:
\* a response through execCallback, Instance::rpcErrorOccured for any request
\* id, and the clearing of callbacks by a session.
NextQueue ==
    \/ \E shape \in QueueShapes : Send(shape, MaxQueueSends)
    \/ \E requestId \in 1..MaxQueueSends : Cancel(requestId)
    \/ \E requestId \in 1..MaxQueueSends, error \in QueueErrors, failRet \in BOOLEAN :
            ExecError(requestId, error, failRet, authorized, MaxQueueErrors,
                      MaxRequests(MaxQueueSends))
    \/ \E requestId \in 1..MaxQueueSends + 1, error \in QueueErrors, failRet \in BOOLEAN :
            RpcErrorOccured(requestId, error, failRet, MaxQueueErrors)
    \/ \E requestId \in 1..MaxQueueSends, errorCode \in {0, 1}, failRet \in BOOLEAN :
            ClearCallbacks(requestId, errorCode, failRet)
    \/ TimerFired

SpecQueue == Init /\ [][NextQueue]_vars

\* Requests to the main dc and requests pinned to dc 1.
MainShapes == {[handlers |-> "user", shiftedDcId |-> d, after |-> 0] : d \in {0, 1}}

\* The session keys killSession is called with.
KilledDcIds == DcIds \cup {destroyKeyNextDcId(kDefaultMainDc)}

\* The instance in either mode, with the main dc set and sessions killed by
\* the application and requests migrated by the server.  A request for the
\* main dc is sent only while there is a main session (getSession asserts it).
NextMain ==
    \/ \E shape \in MainShapes :
            /\ shape.shiftedDcId = 0 => mainSession # 0
            /\ Send(shape, MaxMainSends)
    \/ \E mainDc \in DcIds : SetMainDcId(mainDc)
    \/ \E mainDc \in DcIds : SuggestMainDcId(mainDc)
    \/ \E shiftedDcId \in KilledDcIds : KillSession(shiftedDcId)
    \/ \E requestId \in 1..MaxMainSends, error \in MigrateErrors, failRet \in BOOLEAN :
            ExecError(requestId, error, failRet, authorized, MaxMainErrors,
                      MaxRequests(MaxMainSends))
    \/ SessionsDestroyed

\* The bare dcs of the keys a key destroyer is started with: two keys of dc 2
\* and one of a CDN dc.
KeyDcs == <<2, 2, 3>>

\* The ids a destroyer allocates for these keys: auth.logOut and destroy_auth_key.
KeyRequests == 2 * Len(KeyDcs)

\* The errors the server answers auth.logOut and destroy_auth_key with: a
\* default-handled FLOOD_WAIT, one the policy retries without asking the
\* handler, and one that only the fail handler gets.
KeyErrors == {RpcError(420, "FLOOD_WAIT", 0, TRUE), RpcError(420, "FLOOD_WAIT", 0, FALSE),
              RpcError(400, "PEER_ID_INVALID", 0, FALSE)}

\* A key destroyer started with KeyDcs: the server answers every request, with
\* a result or an error, in any order.
NextDestroy ==
    \/ \E requestId \in 1..KeyRequests : LogOutDone(requestId, KeyRequests)
    \/ \E requestId \in 1..KeyRequests,
           result \in {"destroy_auth_key_ok", "destroy_auth_key_fail",
                       "destroy_auth_key_none"} :
            KeyDestroyResult(requestId, result)
    \/ \E requestId \in 1..KeyRequests, error \in KeyErrors :
            ExecError(requestId, error, FALSE, authorized, MaxKeyErrors, KeyRequests)
    \/ TimerFired
    \/ KeyDestroyCompleted
    \/ SessionsDestroyed

SpecDestroy == StartDestroyer(KeyDcs) /\ [][NextDestroy]_vars

\* The key destroyer on an event loop that runs every closure queued by
\* InvokeQueued; the server answers when it likes.
SpecDestroyLive == SpecDestroy /\ WF_vars(KeyDestroyCompleted)

\* The keys the application hands to a running key destroyer.
AddedKeys == {<<2>>, <<3, 2>>, <<2, 2>>}

\* The ids a run with added keys may allocate.
AddedKeyRequests == KeyRequests

\* A key destroyer started with KeyDcs that is handed more keys while it runs.
NextDestroyAdd ==
    \/ \E keys \in AddedKeys : AddKeysForDestroy(keys, AddedKeyRequests)
    \/ \E requestId \in 1..AddedKeyRequests : LogOutDone(requestId, AddedKeyRequests)
    \/ \E requestId \in 1..AddedKeyRequests,
           result \in {"destroy_auth_key_ok", "destroy_auth_key_fail"} :
            KeyDestroyResult(requestId, result)
    \/ KeyDestroyCompleted
    \/ SessionsDestroyed

SpecDestroyAdd == StartDestroyer(KeyDcs) /\ [][NextDestroyAdd]_vars

\* Callers of GetNextRequestId on several threads, in a process whose counter
\* is fresh or two short of INT_MAX / 2.
NextAllocator ==
    \/ \E thread \in Threads : Increment(thread, MaxAllocations)
    \/ \E thread \in Threads : ResetAndReturn(thread)

SpecAllocator ==
    /\ \E counter \in {0, kRequestIdWrap - 2} : StartedAt(counter)
    /\ [][NextAllocator]_vars

\* The errors the server answers help.getCdnConfig with: one the policy
\* retries and one that ends the request.
CdnErrors == {RpcError(420, "FLOOD_WAIT", 0, TRUE), RpcError(400, "PEER_ID_INVALID", 0, FALSE)}

\* An application that keeps asking for the config, the http time and the CDN
\* config, in normal mode and in a key destroyer, with loaders and a server
\* that answer when they like.
NextLoaders ==
    \/ RequestConfig
    \/ \E old \in BOOLEAN : RequestConfigIfOld(old)
    \/ \E expired \in BOOLEAN : RequestConfigIfExpired(expired)
    \/ \E expired \in BOOLEAN : ConfigLoadDone(expired)
    \/ \E httpValid \in BOOLEAN : SyncHttpUnixtime(httpValid)
    \/ UnixtimeLoaded
    \/ UnixtimeLoaderReset
    \/ RequestCDNConfig(MaxCdnRequests)
    \/ \E requestId \in 1..MaxCdnRequests :
            /\ requestId \in DOMAIN parserMap /\ parserMap[requestId] = "cdnConfig"
            /\ ExecCallback(requestId, "result", NoError, TRUE, FALSE, authorized,
                            MaxCdnErrors, MaxCdnRequests)
    \/ \E requestId \in 1..MaxCdnRequests, error \in CdnErrors :
            /\ requestId \in DOMAIN parserMap /\ parserMap[requestId] = "cdnConfig"
            /\ ExecError(requestId, error, FALSE, authorized, MaxCdnErrors, MaxCdnRequests)
    \/ TimerFired

SpecLoaders == (Init \/ StartDestroyer(<<kDefaultMainDc>>)) /\ [][NextLoaders]_vars

SpecMain == (Init \/ StartDestroyer(<<kDefaultMainDc>>)) /\ [][NextMain]_vars

\* --------------------------------------------------------------------- claims

\* The fields of the instance: everything but what the model records about the
\* last operation.
tables ==
    <<GlobalAtomicRequestId, mainDcId, mainDcIdForced, dcenters, mainSession,
      sessions, sessionsToDestroy, requestsByDc, authExportRequests, parserMap,
      requestMap, delayedRequests, requestsDelays, badGuestDcRequests, authWaiters,
      keysForWrite, keyValues, violated, keyRequests, keyDestroys, allKeysDestroyed,
      configLoader,
      httpUnixtimeLoader, cdnConfigLoadRequestId, checkDelayedTimer>>

\* The handlers the last operation invoked for requestId: "done" and "fail".
Invoked(requestId) ==
    {i \in 1..Len(called) : called[i].id = requestId /\ called[i].h \in {"done", "fail"}}

\* C1, second half: once cancel(id) has returned, no operation invokes a done
\* or fail handler registered for id.
C1_NoHandlerAfterCancel == \A requestId \in cancelled : Invoked(requestId) = {}

\* C1, first half: a cancel(id) after a cancel(id) changes no table and asks no
\* session to cancel.
C1_SecondCancel ==
    (last'.op = "cancel" /\ last'.id \in cancelled)
        => (tables' = tables /\ cancels' = <<>>)

\* C1: cancel(id) is idempotent, and after it has returned no done or fail
\* handler of id is invoked, whatever response is delivered for id afterwards.
C1_CancelIsFinal == []C1_NoHandlerAfterCancel /\ [][C1_SecondCancel]_vars

\* A response for a cancelled request is delivered and finds no handler.
C1_Witness ==
    /\ last.op \in {"result", "error"}
    /\ last.id \in cancelled
    /\ last.id \notin DOMAIN parserMap
    /\ called = <<>>

\* The last operation was cancel(requestId), right after the send that returned
\* requestId.
CancelAfterSend(requestId) ==
    /\ last.op = "send" /\ last.id = requestId
    /\ last'.op = "cancel" /\ last'.id = requestId

\* C2: send immediately followed by cancel on the returned id leaves the id in
\* none of the routing, payload and handlers maps, hands the session the request
\* was sent to exactly one cancel(id, msgId) with the message id the payload
\* holds, and invokes no handler.
C2_SendThenCancel ==
    [][\A requestId \in 1..MaxRequests(MaxSends) :
          CancelAfterSend(requestId) =>
              /\ requestId \notin DOMAIN requestsByDc'
              /\ requestId \notin DOMAIN requestMap'
              /\ requestId \notin DOMAIN parserMap'
              /\ sent = <<[dc |-> sent[1].dc, id |-> requestId]>>
              /\ cancels' = <<[dc |-> sent[1].dc, id |-> requestId,
                               msgId |-> requestMap[requestId].msgId]>>
              /\ requestMap[requestId].msgId = MsgIdOf(requestId)
              /\ called' = <<>>]_vars

\* A request was sent and cancelled before any response: its session was told
\* to cancel it.
C2_Witness ==
    /\ last.op = "cancel"
    /\ last.id \in inflight
    /\ errorsSeen = 0
    /\ cancels = <<[dc |-> kDefaultMainDc, id |-> last.id, msgId |-> MsgIdOf(last.id)]>>
    /\ last.id \notin DOMAIN requestsByDc
    /\ last.id \notin DOMAIN parserMap

\* The step is an execCallback that found handlers for requestId and passed
\* them, with the error of the frame, to rpcErrorOccured.
ErrorOccured(requestId) ==
    /\ last'.op \in {"error", "empty", "badError"}
    /\ last'.id = requestId
    /\ requestId \in DOMAIN parserMap

\* The error rpcErrorOccured was given in that step.
ErrorGiven == IF last'.op = "error" THEN last'.err ELSE Local("RESPONSE_PARSE_FAILED")

\* The step left requestId in none of the routing, payload, handlers and retry
\* delay maps.
Dropped(requestId) ==
    /\ requestId \notin DOMAIN requestsByDc'
    /\ requestId \notin DOMAIN requestMap'
    /\ requestId \notin DOMAIN parserMap'
    /\ requestId \notin DOMAIN requestsDelays'

\* The step left the handlers of requestId registered and kept its routing and
\* its payload.
Kept(requestId) ==
    /\ requestId \in DOMAIN parserMap' /\ parserMap'[requestId] = parserMap[requestId]
    /\ requestId \in DOMAIN requestsByDc'
    /\ requestId \in DOMAIN requestMap'
    /\ requestMap'[requestId].msgId = requestMap[requestId].msgId

\* The fail handler of requestId answered TRUE to a default-handled error.
FailTookIt(requestId) ==
    /\ isDefaultHandledError(ErrorGiven)
    /\ called' # <<>>
    /\ called'[1] = [h |-> "fail", id |-> requestId, ret |-> TRUE]

\* C3: the propagation rule of rpcErrorOccured.  A default-handled error goes
\* to the fail handler first, and if that answers TRUE the request is dropped
\* and the policy is not consulted; otherwise the policy is consulted, a
\* handled error keeps handlers, routing and payload, and an error not handled
\* ends with a call of the fail handler and the request dropped.
C3_PropagationRule ==
    [][\A requestId \in 1..MaxRequests(MaxSends) :
          ErrorOccured(requestId) =>
              /\ isDefaultHandledError(ErrorGiven) =>
                     (called' # <<>> /\ called'[1].h = "fail" /\ called'[1].id = requestId)
              /\ FailTookIt(requestId) =>
                     (last'.policy = "none" /\ Len(called') = 1 /\ Dropped(requestId))
              /\ ~FailTookIt(requestId) => last'.policy \in {"handled", "unhandled"}
              /\ last'.policy = "handled" => Kept(requestId)
              /\ last'.policy = "unhandled" =>
                     /\ called' # <<>>
                     /\ called'[Len(called')].h = "fail"
                     /\ called'[Len(called')].id = requestId
                     /\ Dropped(requestId)]_vars

\* The policy handled an error the fail handler had declined: the request stays
\* registered.
C3_Witness ==
    /\ last.op = "error"
    /\ isDefaultHandledError(last.err)
    /\ last.policy = "handled"
    /\ called = <<[h |-> "fail", id |-> last.id, ret |-> FALSE]>>
    /\ last.id \in DOMAIN parserMap
    /\ last.id \in DOMAIN requestsByDc

\* The calls of the fail handler of requestId in the last operation.
FailCalls(requestId) ==
    {i \in 1..Len(called) : called[i].h = "fail" /\ called[i].id = requestId}

\* The last operation delivered an error that onErrorDefault reported handled.
PolicyHandled == last.op = "error" /\ last.policy = "handled"

\* C4 as stated: an error that onErrorDefault reports as handled is not passed
\* to the fail handler of the request.
C4_HandledNeverReachesFail == PolicyHandled => FailCalls(last.id) = {}

\* C4, amended: an error that onErrorDefault reports as handled is passed to the
\* fail handler of the request only if it is default-handled, and then once,
\* before the policy is consulted, with the handler answering FALSE; a handled
\* error that is not default-handled does not reach the fail handler.
C4_HandledReachesFailOnlyFirst ==
    PolicyHandled =>
        IF isDefaultHandledError(last.err)
        THEN /\ FailCalls(last.id) = {1}
             /\ called[1].ret = FALSE
        ELSE FailCalls(last.id) = {}

\* A FLOOD_WAIT that is default-handled was declined by the fail handler and
\* then queued for a resend by the policy.
C4_Witness ==
    /\ PolicyHandled
    /\ IsFloodWait(last.err) /\ isDefaultHandledError(last.err)
    /\ FailCalls(last.id) = {1}
    /\ \E i \in 1..Len(delayedRequests) : delayedRequests[i].id = last.id

\* The entries of requestId in a delayed queue.
EntriesOf(queue, requestId) == {i \in 1..Len(queue) : queue[i].id = requestId}

\* requestId has routing, payload and handlers.
Registered(requestId) ==
    /\ requestId \in DOMAIN requestsByDc
    /\ requestId \in DOMAIN requestMap
    /\ requestId \in DOMAIN parserMap

\* The last operation handed requestId to the session keyed dc.
SentTo(log, requestId, dc) == \E i \in 1..Len(log) : log[i] = [dc |-> dc, id |-> requestId]
WasSent(log, requestId) == \E i \in 1..Len(log) : log[i].id = requestId

\* C5 as stated: every FLOOD_WAIT_S delivered for a request with handlers ends
\* with the request in the delayed queue, due S * 1000 + 10 ms from now, and its
\* handlers registered.
C5_FloodAlwaysQueued ==
    (last.op = "error" /\ IsFloodWait(last.err) /\ (called # <<>> \/ last.policy # "none"))
        => /\ last.id \in DOMAIN parserMap
           /\ \E i \in EntriesOf(delayedRequests, last.id) :
                  delayedRequests[i].due = now + last.err.arg * 1000 + kDelayPadMs

\* A FLOOD_WAIT_S for a registered request that its fail handler did not take
\* is handled: the request is queued once, due S * 1000 + 10 ms from now, and
\* stays registered.
FloodQueued(requestId) ==
    (ErrorOccured(requestId) /\ Registered(requestId) /\ IsFloodWait(ErrorGiven)
        /\ ~FailTookIt(requestId))
    => /\ last'.policy = "handled"
       /\ Kept(requestId)
       /\ ~WasSent(sent', requestId)
       /\ \E i \in 1..Len(delayedRequests') :
              /\ EntriesOf(delayedRequests', requestId) = {i}
              /\ delayedRequests'[i].due = now + ErrorGiven.arg * 1000 + kDelayPadMs

\* A queued request is handed to a session by the step in which its due time
\* is reached, and by no step before: that step is the firing of the timer
\* armed for a time not before the due time, and it sends the payload to the
\* session of the routing if the request is still registered.
ResentWhenDue(i) ==
    LET entry == delayedRequests[i]
        reached == last'.op = "timer" /\ entry.due <= checkDelayedTimer
    IN  /\ ~reached => ~WasSent(sent', entry.id)
        /\ ~reached => \E j \in 1..Len(delayedRequests') :
                           /\ delayedRequests'[j].id = entry.id
                           /\ delayedRequests'[j].due =
                                  entry.due - (IF last'.op = "timer" THEN checkDelayedTimer
                                               ELSE 0)
        /\ (reached /\ Registered(entry.id)) =>
               SentTo(sent', entry.id, SessionKey(Cur, Abs(requestsByDc[entry.id])))
        /\ checkDelayedTimer >= 0 /\ checkDelayedTimer <= delayedRequests[1].due

\* C5, amended: a FLOOD_WAIT_S that the fail handler of a registered request
\* does not take puts the request into the delayed queue with due time
\* now + S * 1000 + 10 ms and keeps its handlers; the payload is handed to the
\* session again when that time is reached, if the request is still
\* registered, and not before.
C5_FloodQueuedUnlessTaken ==
    [][/\ \A requestId \in 1..MaxRequests(MaxSends) : FloodQueued(requestId)
       /\ \A i \in 1..Len(delayedRequests) : ResentWhenDue(i)]_vars

\* The timer fired for a request that a FLOOD_WAIT had queued, and the request
\* went to its session again with its handlers still registered.
C5_Witness ==
    /\ last.op = "timer"
    /\ Len(sent) = 1
    /\ Registered(sent[1].id)
    /\ sent[1].id \notin DOMAIN requestsDelays
    /\ delayedRequests = <<>>

TransientHandled(requestId) ==
    /\ ErrorOccured(requestId)
    /\ IsTransient(ErrorGiven)
    /\ last'.policy = "handled"

\* The delay the step chose: 1 for the first failure, twice the stored delay
\* while that is at most 60, the stored delay after that; the request is
\* queued for that many seconds plus 10 ms.
DelayChosen(requestId) ==
    LET stored == IF requestId \in DOMAIN requestsDelays THEN requestsDelays[requestId] ELSE 0
        secs == IF stored = 0 THEN 1 ELSE IF stored <= kMaxDelaySecs THEN 2 * stored ELSE stored
    IN  /\ requestId \in DOMAIN requestsDelays'
        /\ requestsDelays'[requestId] = secs
        /\ \E i \in 1..Len(delayedRequests') :
               delayedRequests'[i] = [id |-> requestId, due |-> now + secs * 1000 + kDelayPadMs]

MigrateGiven(requestId) ==
    /\ last'.id = requestId
    /\ IsMigrate(last'.err)
    /\ \/ last'.op = "error" /\ requestId \in DOMAIN parserMap
       \/ last'.op = "rpcError"

\* C7, the pinned case: the routing becomes the new dc composed with the shift
\* of the old routing, the payload goes to the session of that shifted dc under
\* the same id and with the same message id, and no handler is called.
MigratePinned(requestId) ==
    LET newdcWithShift == ShiftDcId(last'.err.arg, GetDcIdShift(requestsByDc[requestId]))
    IN  (/\ requestId \in DOMAIN requestsByDc /\ requestsByDc[requestId] > 0
         /\ requestId \in DOMAIN requestMap
         /\ last'.err.arg # 0)
        => /\ last'.policy = "handled"
           /\ requestsByDc'[requestId] = newdcWithShift
           /\ sent' = <<[dc |-> newdcWithShift, id |-> requestId]>>
           /\ newdcWithShift \in sessions'
           /\ requestMap'[requestId] = requestMap[requestId]
           /\ called' = <<>>
           /\ mainDcId' = mainDcId

\* C7, the unknown case: without routing or payload the error is not handled,
\* nothing is sent and no routing is written.
MigrateUnknown(requestId) ==
    (requestId \notin DOMAIN requestsByDc \/ requestId \notin DOMAIN requestMap)
        => /\ last'.policy = "unhandled"
           /\ sent' = <<>>
           /\ requestsByDc' = requestsByDc

\* C7: a MIGRATE_N with N # 0 on a request with a pinned routing rewrites the
\* routing to N composed with the routing's shift, hands the stored payload to
\* that session under the same id and calls no user handler; with the routing
\* or the payload unknown the error is reported as not handled.
C7_MigratePinned ==
    [][\A requestId \in 1..MaxRequests(MaxSends) :
          MigrateGiven(requestId) => MigratePinned(requestId) /\ MigrateUnknown(requestId)]_vars

\* A request pinned to a shifted dc was moved to dc 1 with the same shift.
C7_Witness ==
    /\ last.op = "error" /\ IsMigrate(last.err) /\ last.err.arg = 1
    /\ last.policy = "handled"
    /\ last.id \in DOMAIN requestsByDc
    /\ requestsByDc[last.id] = ShiftDcId(1, 1)
    /\ sent = <<[dc |-> ShiftDcId(1, 1), id |-> last.id]>>
    /\ called = <<>>

\* C8: a MIGRATE_N (N # 0) on a request with a main-relative routing makes N
\* the main dc through setMainDcId, rewrites the routing to -N, hands the
\* payload to the new main session, and starts no auth export or import: no
\* request id is allocated and the export and waiter tables do not change.
C8_MigrateMainRelative ==
    [][\A requestId \in 1..MaxRequests(MaxSends) :
          (/\ MigrateGiven(requestId)
           /\ requestId \in DOMAIN requestsByDc /\ requestsByDc[requestId] < 0
           /\ requestId \in DOMAIN requestMap
           /\ last'.err.arg # 0)
          => /\ last'.policy = "handled"
             /\ mainDcId' = last'.err.arg
             /\ mainDcIdForced'
             /\ mainSession' = last'.err.arg
             /\ mainSession' \in sessions'
             /\ requestsByDc'[requestId] = -last'.err.arg
             /\ sent' = <<[dc |-> mainSession', id |-> requestId]>>
             /\ GlobalAtomicRequestId' = GlobalAtomicRequestId
             /\ authExportRequests' = authExportRequests
             /\ authWaiters' = authWaiters
             /\ called' = <<>>]_vars

\* A request sent to the main dc made dc 1 the main dc and went to its session.
C8_Witness ==
    /\ last.op = "error" /\ IsMigrate(last.err) /\ last.err.arg = 1
    /\ last.policy = "handled"
    /\ mainDcId = 1 /\ mainSession = 1 /\ mainDcIdForced
    /\ last.id \in DOMAIN requestsByDc
    /\ requestsByDc[last.id] = -1
    /\ sent = <<[dc |-> 1, id |-> last.id]>>
    /\ authExportRequests = EmptyMap /\ authWaiters = EmptyMap

\* C9: the same MIGRATE_N delivered again for the same request, after the
\* policy handled the first, is handled and leaves the routing of the request
\* and the main dc as the first delivery left them.
C9_MigrateTwiceAsOnce ==
    [][\A requestId \in 1..MaxRequests(MaxSends) :
          (MigrateGiven(requestId) /\ last'.again /\ last.policy = "handled")
          => /\ last'.policy = "handled"
             /\ requestId \in DOMAIN requestsByDc
             /\ requestsByDc'[requestId] = requestsByDc[requestId]
             /\ mainDcId' = mainDcId
             /\ mainSession' = mainSession]_vars

\* MIGRATE_1 was delivered twice for a request sent to the main dc: dc 1 is
\* the main dc and the routing is -1.
C9_Witness ==
    /\ last.again /\ last.op = "error" /\ IsMigrate(last.err) /\ last.err.arg = 1
    /\ last.policy = "handled"
    /\ errorsSeen = 2
    /\ mainDcId = 1
    /\ last.id \in DOMAIN requestsByDc
    /\ requestsByDc[last.id] = -1

\* The last operation was a 401 other than AUTH_KEY_PERM_EMPTY that the policy
\* handled.
Handled401 ==
    /\ last.op = "error"
    /\ last.err.code = 401 /\ last.err.type # "AUTH_KEY_PERM_EMPTY"
    /\ last.policy = "handled"

\* An auth export for bare dc d, or the import its result sends to d, is with
\* a session and not answered yet.
AuthInFlight(d) ==
    \E requestId \in inflight \cap DOMAIN parserMap :
        \/ /\ parserMap[requestId] = "export"
           /\ requestId \in DOMAIN authExportRequests
           /\ BareDcId(authExportRequests[requestId]) = d
        \/ /\ parserMap[requestId] = "import"
           /\ requestId \in DOMAIN requestsByDc
           /\ BareDcId(Abs(requestsByDc[requestId])) = d

\* C10 as stated, with the import counted as part of the export: after a
\* handled 401 for a request routed to the non-main dc d the request is in the
\* waiter list of d and an auth export for d (or its import) is in flight.
C10_WaitersHaveExportInFlight ==
    Handled401 =>
        LET d == BareDcId(Abs(requestsByDc[last.id]))
        IN  /\ Contains(Waiters(Cur, d), last.id)
            /\ AuthInFlight(d)

\* C10, the part that holds: a handled 401 appends the request to the waiter
\* list of its dc, and it sends an export, recorded for that dc, exactly when
\* the list was empty.
C10_ExportStartedIffNoWaiters ==
    [][\A requestId \in 1..MaxRequests(MaxAuthSends) :
          (ErrorOccured(requestId) /\ Handled401')
          => LET d == BareDcId(Abs(requestsByDc[requestId]))
                 exportRequestId == GlobalAtomicRequestId + 1
             IN  /\ d # 0 /\ d # mainDcId /\ authorized'
                 /\ Waiters(Cur, d)' = Append(Waiters(Cur, d), requestId)
                 /\ IF Waiters(Cur, d) = <<>>
                    THEN /\ GlobalAtomicRequestId' = exportRequestId
                         /\ authExportRequests' =
                                Put(authExportRequests, exportRequestId,
                                    Abs(requestsByDc[requestId]))
                         /\ parserMap'[exportRequestId] = "export"
                         /\ sent' = <<[dc |-> mainSession, id |-> exportRequestId]>>
                    ELSE /\ GlobalAtomicRequestId' = GlobalAtomicRequestId
                         /\ authExportRequests' = authExportRequests
                         /\ sent' = <<>>]_vars

\* Two requests wait for dc 1 after a handled 401 each, and neither an export
\* nor an import for dc 1 is in flight.
C10_Witness ==
    /\ Handled401
    /\ Waiters(Cur, 1) = <<1, 2>>
    /\ {1, 2} \subseteq DOMAIN parserMap
    /\ parserMap[1] = "user" /\ parserMap[2] = "user"
    /\ ~AuthInFlight(1)
    /\ inflight = {}
    /\ authExportRequests = EmptyMap

\* The response of this step is the result of the auth import requestId.
ImportCompleted(requestId) ==
    /\ last'.op = "result" /\ last'.id = requestId
    /\ requestId \in DOMAIN parserMap /\ parserMap[requestId] = "import"
    /\ requestId \in DOMAIN requestsByDc

\* The waiters of bare dc d that still have a payload and a routing, in the
\* order of the list.
StoredWaiters(d) ==
    LET Stored(id) == id \in DOMAIN requestMap /\ id \in DOMAIN requestsByDc
    IN  SelectSeq(Waiters(Cur, d), Stored)

\* The routing r moved to bare dc d with its sign and its shift.
Moved(r, d) == IF r < 0 THEN -d ELSE ShiftDcId(d, GetDcIdShift(r))

\* importDone drained the waiters of d: the list is empty, the stored waiters
\* were sent in the order of the list, each with its routing moved to d with
\* sign and shift kept, d became the main dc if one of the routings was
\* negative, and the k-th payload went to the session keyed Key(k).
Drained(d, stored, Key(_)) ==
    /\ d \notin DOMAIN authWaiters'
    /\ Len(sent') = Len(stored)
    /\ \A k \in 1..Len(stored) :
           /\ sent'[k] = [dc |-> Key(k), id |-> stored[k]]
           /\ Key(k) \in sessions'
           /\ requestsByDc'[stored[k]] = Moved(requestsByDc[stored[k]], d)
           /\ requestMap'[stored[k]] = requestMap[stored[k]]
           /\ requestsByDc[stored[k]] < 0 => mainDcId' = d

\* C11 as stated: when an auth import completes the waiter list of its target
\* dc is drained in insertion order, each stored waiter's routing is rewritten
\* to the target with sign and shift kept, and its payload is handed to the
\* session of the target dc: the main session for a main-relative routing, the
\* session of the target with the routing's shift for a pinned one.
C11_ImportDrainsToTarget ==
    [][\A requestId \in 1..MaxRequests(MaxAuthSends) :
          ImportCompleted(requestId) =>
              LET d == BareDcId(requestsByDc[requestId])
                  stored == StoredWaiters(d)
                  Key(k) == IF requestsByDc[stored[k]] < 0 THEN d
                            ELSE ShiftDcId(d, GetDcIdShift(requestsByDc[stored[k]]))
              IN  Drained(d, stored, Key) /\ (Len(stored) > 0 => mainSession' \in sessions')
      ]_vars

\* C11, what holds: the drain as above, except that the payload of a waiter
\* with a main-relative routing is handed to the session that getSession finds
\* or starts under the key -d, the rewritten routing itself.
C11_ImportDrainsToRouting ==
    [][\A requestId \in 1..MaxRequests(MaxAuthSends) :
          ImportCompleted(requestId) =>
              LET d == BareDcId(requestsByDc[requestId])
                  stored == StoredWaiters(d)
                  Key(k) == Moved(requestsByDc[stored[k]], d)
              IN  Drained(d, stored, Key)]_vars

\* An import to dc 2 completed for a waiter whose routing was -2: dc 2 is the
\* main dc again and the payload went to a session keyed -2.
C11_Witness ==
    /\ last.op = "result"
    /\ Len(sent) = 1
    /\ sent[1].dc = -2
    /\ -2 \in sessions
    /\ mainDcId = 2
    /\ sent[1].id \in DOMAIN requestsByDc /\ requestsByDc[sent[1].id] = -2
    /\ authWaiters = EmptyMap

\* The auth export requestId failed in this step: its response is an error
\* that is not default-handled and that the policy did not handle, so that
\* exportFail ran as its fail handler.
ExportFailed(requestId) ==
    /\ last'.op = "error" /\ last'.id = requestId
    /\ requestId \in DOMAIN parserMap /\ parserMap[requestId] = "export"
    /\ requestId \in DOMAIN authExportRequests
    /\ ~isDefaultHandledError(last'.err)
    /\ last'.policy = "unhandled"

\* The requests waiting for bare dc d.
WaitingFor(d) == {Waiters(Cur, d)[i] : i \in 1..Len(Waiters(Cur, d))}

\* After the step something can still reach requestId: a session holds it, the
\* delayed queue holds it, or it is in a waiter list.
StillPending(requestId) ==
    \/ requestId \in inflight'
    \/ \E i \in 1..Len(delayedRequests') : delayedRequests'[i].id = requestId
    \/ \E d \in DOMAIN authWaiters' : Contains(authWaiters'[d], requestId)

\* C12 as stated: when an auth export fails with an error that is not
\* default-handled, the waiter list of its target is cleared and every request
\* that waited in it is surfaced through its own fail path: it is dropped, or
\* something that will deliver it a response or an error is still pending.
C12_WaitersAreSurfaced ==
    [][\A requestId \in 1..MaxRequests(MaxAuthSends) :
          ExportFailed(requestId) =>
              LET d == BareDcId(authExportRequests[requestId])
              IN  /\ d \notin DOMAIN authWaiters'
                  /\ \A waiter \in WaitingFor(d) :
                         \/ waiter \notin DOMAIN parserMap'
                         \/ StillPending(waiter)]_vars

\* C12, what holds: the failed export is dropped and the waiter list of its
\* target is cleared, and every request that waited in it keeps its handlers,
\* routing and payload, has none of its handlers called, and is handed to no
\* session.
C12_ExportFailOnlyClears ==
    [][\A requestId \in 1..MaxRequests(MaxAuthSends) :
          ExportFailed(requestId) =>
              LET d == BareDcId(authExportRequests[requestId])
              IN  /\ d \notin DOMAIN authWaiters'
                  /\ Dropped(requestId)
                  /\ sent' = <<>>
                  /\ \A waiter \in WaitingFor(d) \cap DOMAIN parserMap :
                         /\ waiter # requestId => Kept(waiter)
                         /\ waiter # requestId => Invoked(waiter)' = {}]_vars

\* An export failed and request 1, which waited for it, is still registered
\* with its handlers while no session, queue or waiter list holds it.
C12_Witness ==
    /\ last.op = "error" /\ last.policy = "unhandled"
    /\ last.id \in DOMAIN authExportRequests
    /\ called # <<>> /\ called[Len(called)] = [h |-> "fail", id |-> last.id, ret |-> TRUE]
    /\ authWaiters = EmptyMap
    /\ 1 \in DOMAIN parserMap /\ 1 \in DOMAIN requestsByDc /\ 1 \in DOMAIN requestMap
    /\ 1 \notin inflight
    /\ delayedRequests = <<>>

\* requestId is routed to a guest dc: a bare dc that is not the main dc.
RoutedToGuest(requestId) ==
    /\ requestId \in DOMAIN requestsByDc
    /\ BareDcId(Abs(requestsByDc[requestId])) \notin {0, mainDcId}

\* The step sent requestId into the export / import chain: the error is
\* handled, the request waits for its dc and none of its handlers is called.
TookChain(requestId) ==
    /\ last'.policy = "handled"
    /\ BareDcId(Abs(requestsByDc[requestId])) \in DOMAIN authWaiters'
    /\ Contains(authWaiters'[BareDcId(Abs(requestsByDc[requestId]))], requestId)
    /\ Kept(requestId)
    /\ called' = <<>>

\* The step surfaced the error: not handled, the fail handler of requestId was
\* the last handler called, and the request is dropped.
Surfaced(requestId) ==
    /\ last'.policy = "unhandled"
    /\ called' # <<>>
    /\ called'[Len(called')].h = "fail" /\ called'[Len(called')].id = requestId
    /\ Dropped(requestId)

\* The rule for one error step on a request routed to a guest dc; "chain"
\* says whether the chain is open to the step.
BadGuestRule(requestId, chain) ==
    (ErrorOccured(requestId) /\ last'.op = "error" /\ RoutedToGuest(requestId)) =>
        /\ (IsBadGuestDc(last'.err) /\ requestId \notin badGuestDcRequests /\ chain)
               => TookChain(requestId) /\ requestId \in badGuestDcRequests'
        /\ (IsBadGuestDc(last'.err) /\ requestId \in badGuestDcRequests)
               => Surfaced(requestId) /\ requestId \notin badGuestDcRequests'
        /\ (last'.err.code = 401 /\ last'.err.type # "AUTH_KEY_PERM_EMPTY" /\ chain)
               => TookChain(requestId) /\ badGuestDcRequests' = badGuestDcRequests

DoneCalls(log, requestId) ==
    {i \in 1..Len(log) : log[i].h = "done" /\ log[i].id = requestId}

\* C14: a response frame that is not an error, delivered for a request with
\* handlers, invokes the done handler once with the id of the request and
\* leaves the id in none of the routing, payload, handlers and retry-delay
\* maps, whether or not the policy retried the request before.
C14_DoneOnceThenGone ==
    [][\A requestId \in 1..MaxRequests(MaxSends) :
          (last'.op = "result" /\ last'.id = requestId /\ requestId \in DOMAIN parserMap)
          => /\ Cardinality(DoneCalls(called', requestId)) = 1
             /\ called'[1].h = "done" /\ called'[1].id = requestId
             /\ Dropped(requestId)]_vars

\* Request 1 got its result after the policy had handled an error for it and
\* retried it: the done handler ran and the request is gone from the maps.
C14_Witness ==
    /\ last.op = "result" /\ last.id = 1
    /\ errorsSeen = 1
    /\ GlobalAtomicRequestId = 1
    /\ called = <<[h |-> "done", id |-> 1, ret |-> TRUE]>>
    /\ requestsByDc = EmptyMap /\ requestMap = EmptyMap /\ parserMap = EmptyMap
    /\ requestsDelays = EmptyMap

\* ---------------------------------------------------------------- claim C15

\* C15: in every reachable state the routing map has at least as many entries
\* as the handlers map; every id with stored handlers has a routing entry.
C15_RoutingCoversHandlers ==
    /\ Cardinality(DOMAIN requestsByDc) >= Cardinality(DOMAIN parserMap)
    /\ DOMAIN parserMap \subseteq DOMAIN requestsByDc

\* The policy handled an error for request 1 and execCallback stored its
\* handlers again: the request has its routing entry and its handlers.
C15_Witness ==
    /\ PolicyHandled /\ last.id = 1
    /\ DOMAIN parserMap = {1}
    /\ DOMAIN requestsByDc = {1}

\* ---------------------------------------------------------------- claim C16

\* The step put a new entry for requestId into the delayed queue.
Enqueued(requestId) ==
    Cardinality(EntriesOf(delayedRequests', requestId))
        > Cardinality(EntriesOf(delayedRequests, requestId))

\* C16 as stated: every request id the flood/transient branch or the
\* dependent-wait branch inserts into the delayed queue has a routing entry at
\* the time of the insertion, for every way the error is delivered.
C16_EnqueuedHaveRouting ==
    [][\A requestId \in 1..MaxQueueSends + 1 :
          Enqueued(requestId) => requestId \in DOMAIN requestsByDc']_vars

\* C16, what the code keeps: an id inserted into the delayed queue while
\* execCallback delivers the error or while callbacks are cleared has a routing
\* entry; the dependent-wait branch inserts an id only with a routing entry,
\* however the error is delivered.
C16_EnqueuedByResponseHaveRouting ==
    [][\A requestId \in 1..MaxQueueSends + 1 :
          (/\ Enqueued(requestId)
           /\ last'.op # "rpcError" \/ last'.err.type = "MSG_WAIT_FAILED")
          => requestId \in DOMAIN requestsByDc']_vars

\* Instance::rpcErrorOccured was called with a FLOOD_WAIT for id 1, which was
\* never sent: the id is in the delayed queue and has no routing entry.
C16_Witness ==
    /\ last.op = "rpcError" /\ last.id = 1 /\ IsFloodWait(last.err)
    /\ GlobalAtomicRequestId = 0
    /\ EntriesOf(delayedRequests, 1) # {}
    /\ 1 \notin DOMAIN requestsByDc

\* ---------------------------------------------------------------- claim C17

\* The least element of a non-empty set of positions.
First(positions) == CHOOSE i \in positions : \A j \in positions : i <= j

\* C17 as stated: each request id present in the request table has at most one
\* entry in the retry-delay map and at most one entry in the delayed queue,
\* after any sequence of flood, transient and dependent-wait errors.
C17_AtMostOneEntry ==
    \A requestId \in DOMAIN requestMap :
        /\ Cardinality({k \in DOMAIN requestsDelays : k = requestId}) <= 1
        /\ Cardinality(EntriesOf(delayedRequests, requestId)) <= 1

\* C17, what the code keeps: the delayed queue is ordered by due time; a step
\* inserts at most one entry for an id, and inserts one for an id that already
\* has an entry only ahead of an entry of another id that precedes the old
\* entry and is due later than the new one or is the dependency of the id.
C17_SecondEntryOnlyAhead ==
    /\ [](\A i \in 1..Len(delayedRequests) - 1 :
              delayedRequests[i].due <= delayedRequests[i + 1].due)
    /\ [][\A requestId \in 1..MaxQueueSends + 1 :
            LET Rule(old, new) ==
                    /\ Cardinality(new) <= Cardinality(old) + 1
                    /\ (Cardinality(new) > Cardinality(old) /\ old # {})
                       => /\ First(new) <= First(old)
                          /\ delayedRequests'[First(new) + 1].id # requestId
            IN  Rule(EntriesOf(delayedRequests, requestId),
                     EntriesOf(delayedRequests', requestId))]_vars

\* Request 1 was queued behind the entry of id 3 after a transient error, and
\* Instance::rpcErrorOccured then delivered FLOOD_WAIT_0 for it: request 1, still
\* in the request table, has two entries in the delayed queue.
C17_Witness ==
    /\ last.op = "rpcError" /\ last.id = 1 /\ IsFloodWait(last.err)
    /\ 1 \in DOMAIN requestMap
    /\ Len(delayedRequests) = 3
    /\ delayedRequests[1].id = 1 /\ delayedRequests[2].id = 3 /\ delayedRequests[3].id = 1
    /\ delayedRequests[1].due < delayedRequests[3].due

\* ---------------------------------------------------------------- claim C18

\* C18 as stated: main-relative routing entries are rewritten when the main dc
\* changes, so that in every reachable state each negative routing entry equals
\* minus the current main dc id.
C18_NegativeIsMinusMain ==
    \A requestId \in DOMAIN requestsByDc :
        requestsByDc[requestId] < 0 => requestsByDc[requestId] = -mainDcId

\* The step wrote the routing entry of requestId.
Routed(requestId) ==
    /\ requestId \in DOMAIN requestsByDc'
    /\ requestId \in DOMAIN requestsByDc => requestsByDc'[requestId] # requestsByDc[requestId]

\* C18, what the code keeps: the routing entry of a request is negative exactly
\* when it was sent with shiftedDcId 0 and keeps its sign as long as it exists;
\* a negative entry equals minus the main dc id of the moment it was written,
\* by the send or by a migration of that request.
C18_NegativeIsMinusMainWhenWritten ==
    [][/\ \A shape \in MainShapes :
              Send(shape, MaxMainSends)
              => (requestsByDc'[last'.id] < 0 <=> shape.shiftedDcId = 0)
       /\ \A requestId \in (DOMAIN requestsByDc) \cap (DOMAIN requestsByDc') :
              requestsByDc'[requestId] < 0 <=> requestsByDc[requestId] < 0
       /\ \A requestId \in 1..MaxMainSends :
              (Routed(requestId) /\ requestsByDc'[requestId] < 0)
              => requestsByDc'[requestId] = -mainDcId']_vars

\* Request 1 was sent to the main dc while that was dc 2; setMainDcId(1) moved
\* the main dc and the main session, and the routing of request 1 is still -2.
C18_Witness ==
    /\ last.op = "setMainDcId" /\ last.id = 1
    /\ mainDcId = 1 /\ mainSession = 1
    /\ 1 \in DOMAIN requestsByDc /\ requestsByDc[1] = -2

\* ---------------------------------------------------------------- claim C19

\* C19: in normal mode exactly one session is designated main after every
\* operation, and it is a session of the registry; in key-destroyer mode no
\* session is ever designated main.
C19_OneMainUnlessDestroyer ==
    IF isKeysDestroyer THEN mainSession = 0
    ELSE mainSession > 0 /\ mainSession \in sessions

\* setMainDcId(1) in normal mode found a session pinned to dc 1: the main
\* session of dc 2 and that session were killed, and the new session of dc 1
\* is the main one.
C19_Witness ==
    /\ last.op = "setMainDcId" /\ last.id = 1
    /\ ~isKeysDestroyer
    /\ sessionsToDestroy = {1, 2}
    /\ sessions = {1} /\ mainSession = 1

\* ---------------------------------------------------------------- claim C20

\* The sessions and the choice of the main dc are as they were before the step.
SameSessions ==
    /\ mainDcId' = mainDcId /\ mainDcIdForced' = mainDcIdForced
    /\ mainSession' = mainSession
    /\ sessions' = sessions /\ sessionsToDestroy' = sessionsToDestroy
    /\ dcenters' = dcenters

\* C20: setMainDcId(n) with a main session marks the main dc as forced and sets
\* it to n; when n differs from the dc of the main session, that session goes to
\* the pending-destruction list and a new main session is started for n.
\* Without a main session setMainDcId changes nothing.  After every
\* setMainDcId and killSession in normal mode the main session is the registry
\* entry keyed by the current main dc id, not a session pending destruction.
C20_SetMainDcIdMovesMainSession ==
    [][/\ \A n \in DcIds :
              (last'.op = "setMainDcId" /\ last'.id = n)
              => IF mainSession = 0 THEN SameSessions
                 ELSE /\ mainDcIdForced' /\ mainDcId' = n
                      /\ IF n # mainSession
                         THEN /\ mainSession \in sessionsToDestroy'
                              /\ mainSession \notin sessions'
                              /\ n \in sessions' /\ mainSession' = n
                         ELSE /\ mainSession' = mainSession
                              /\ sessions' = sessions
                              /\ sessionsToDestroy' = sessionsToDestroy
       /\ (last'.op \in {"setMainDcId", "killSession"} /\ mainSession # 0)
          => /\ mainSession' = mainDcId'
             /\ mainSession' \in sessions']_vars

\* setMainDcId(1) moved the main dc from 2 to 1: the choice is forced, the old
\* main session is pending destruction and the session of dc 1 is the main one.
C20_Witness ==
    /\ last.op = "setMainDcId" /\ last.id = 1
    /\ mainDcIdForced /\ mainDcId = 1
    /\ sessionsToDestroy = {2}
    /\ sessions = {1} /\ mainSession = 1

\* ---------------------------------------------------------------- claim C21

\* C21: suggestMainDcId(n) changes nothing when the main dc is forced and
\* otherwise does what setMainDcId(n) does; a second suggestMainDcId(X) right
\* after the first leaves the instance as the first left it; and setMainDcId(Y)
\* on an instance with a main session makes Y the main dc and the dc of the
\* main session, whatever was suggested before.
C21_SuggestYieldsToForced ==
    /\ [](\A X \in DcIds :
            LET Twice(once) == suggestMainDcId(once, X) = once
            IN  Twice(suggestMainDcId(Cur, X)))
    /\ [](\A X \in DcIds, Y \in DcIds :
            LET Overrides(set) == set.mainDcId = Y /\ set.mainSession = Y /\ set.mainDcIdForced
            IN  mainSession # 0 => Overrides(setMainDcId(suggestMainDcId(Cur, X), Y)))
    /\ [][\A n \in DcIds :
            (last'.op = "suggestMainDcId" /\ last'.id = n)
            => IF mainDcIdForced \/ mainSession = 0 THEN SameSessions
               ELSE /\ mainDcIdForced' /\ mainDcId' = n
                    /\ mainSession' = n /\ n \in sessions'
                    /\ n # mainSession => mainSession \in sessionsToDestroy']_vars

\* suggestMainDcId(1) moved the main dc while it was not forced, and the
\* suggestMainDcId(2) that followed changed nothing: the main dc is still 1.
C21_Witness ==
    /\ last.op = "suggestMainDcId" /\ last.id = 2
    /\ mainDcIdForced /\ mainDcId = 1 /\ mainSession = 1
    /\ sessions = {1}
    /\ GlobalAtomicRequestId = 0


\* How many keys of the list belong to the bare dc.
KeysOfDc(keys, dcId) == Cardinality({i \in 1..Len(keys) : keys[i] = dcId})

\* The shifted dcs among "placed" hold the keys of the list, one each, under
\* shifts of their own bare dcs, with a control block and a session each.
PlacedApart(keys, placed) ==
    /\ Cardinality(placed) = Len(keys)
    /\ \A dcId \in DcIds \cup CdnDcIds :
            Cardinality({d \in placed : BareDcId(d) = dcId}) = KeysOfDc(keys, dcId)
    /\ \A d \in placed : GetDcIdShift(d) > 0

\* The destruction of the key of shiftedDcId is under way in the instance s
\* with a request allocated after "since": auth.logOut, or destroy_auth_key
\* for a CDN dc, is among "handed", what the operation handed to sessions.
DestroyScheduled(s, handed, shiftedDcId, since) ==
    \E requestId \in DOMAIN s.keyRequests :
        /\ requestId > since
        /\ s.keyRequests[requestId] = shiftedDcId
        /\ requestId \in DOMAIN s.parserMap
        /\ s.parserMap[requestId] =
               (IF BareDcId(shiftedDcId) \in CdnDcIds THEN "destroyKey" ELSE "logOut")
        /\ \E i \in 1..Len(handed) :
               handed[i].id = requestId /\ handed[i].dc = shiftedDcId

\* C22: in key-destroyer mode start places every input key under a shifted dc
\* of its own, also several keys of one bare dc: k keys give k entries of the
\* key registry, k control blocks and k sessions, and the destruction of each
\* key is scheduled; addKeysForDestroy adds the same for each of its keys, next
\* to what the registries already hold.
C22_EveryKeyOwnShiftedDc ==
    /\ [](last.op = "start"
            => /\ PlacedApart(KeyDcs, keysForWrite)
               /\ dcenters = keysForWrite /\ sessions = keysForWrite
               /\ \A d \in keysForWrite : DestroyScheduled(Cur, sent, d, 0))
    /\ [][\A keys \in AddedKeys :
            LET Added(new) ==
                    /\ PlacedApart(keys, new)
                    /\ keysForWrite \subseteq keysForWrite'
                    /\ dcenters' \ dcenters = new /\ sessions' \ sessions = new
                    /\ \A d \in new : DestroyScheduled(Cur', sent', d, GlobalAtomicRequestId)
            IN  AddKeysForDestroy(keys, AddedKeyRequests)
                    => Added(keysForWrite' \ keysForWrite)]_vars

\* Two keys of dc 2 are added while the two keys of dc 2 from the start are
\* still held: the four sit under four shifted dcs.
C22_Witness ==
    /\ last.op = "addKeysForDestroy"
    /\ Cardinality({d \in keysForWrite : BareDcId(d) = 2}) = 4
    /\ Cardinality(sessions) = 5

DestroyResults == {"destroy_auth_key_ok", "destroy_auth_key_fail", "destroy_auth_key_none"}

\* The requests of kind h registered for the key of shiftedDcId.
KeyRequestsOf(parsers, h, shiftedDcId) ==
    {requestId \in DOMAIN parsers :
        parsers[requestId] = h /\ keyRequests[requestId] = shiftedDcId}

\* C24: the destruction of a key goes in order. destroy_auth_key for a dc that
\* is no CDN dc is sent only by the response to its auth.logOut: a result, or
\* an error that is not default-handled and that the policy left to the fail
\* handler; a CDN dc never gets auth.logOut, its destroy_auth_key is sent by
\* start. completedKeyDestroy is queued only by the response that finishes
\* destroy_auth_key, a result of any type or an error, and runs with no request
\* of that dc left; the result fail kills the session at once, the others leave
\* it to completedKeyDestroy.
C24_DestructionInOrder ==
    /\ [](\A requestId \in DOMAIN parserMap :
            parserMap[requestId] = "logOut" => BareDcId(keyRequests[requestId]) \notin CdnDcIds)
    /\ [](last.op = "start"
            => \A d \in keysForWrite :
                   /\ Cardinality(KeyRequestsOf(parserMap, "logOut", d))
                        = (IF BareDcId(d) \in CdnDcIds THEN 0 ELSE 1)
                   /\ Cardinality(KeyRequestsOf(parserMap, "destroyKey", d))
                        = (IF BareDcId(d) \in CdnDcIds THEN 1 ELSE 0))
    /\ [][\A requestId \in (DOMAIN parserMap') \ (DOMAIN parserMap) :
            LET AfterLogOut(d, logOut) ==
                    /\ parserMap'[requestId] = "destroyKey"
                    /\ logOut \in KeyRequestsOf(parserMap, "logOut", d)
                    /\ logOut \notin DOMAIN parserMap' /\ logOut \notin inflight'
                    /\ \/ last'.op = "result"
                       \/ /\ last'.op = "error" /\ ~isDefaultHandledError(last'.err)
                          /\ last'.policy = "unhandled"
                    /\ \E i \in 1..Len(sent') : sent'[i].id = requestId /\ sent'[i].dc = d
            IN  AfterLogOut(keyRequests'[requestId], last'.id)]_vars
    /\ [][Len(keyDestroys') > Len(keyDestroys)
            => LET Finished(d, destroyKey) ==
                       /\ keyDestroys' = Append(keyDestroys, d)
                       /\ destroyKey \in KeyRequestsOf(parserMap, "destroyKey", d)
                       /\ destroyKey \notin DOMAIN parserMap' /\ destroyKey \notin inflight'
                       /\ last'.op \in DestroyResults \cup {"error"}
                       /\ IF last'.op = "destroy_auth_key_fail"
                          THEN d \notin sessions' /\ d \in sessionsToDestroy'
                          ELSE sessions' = sessions
               IN  Finished(keyRequests[last'.id], last'.id)]_vars
    /\ [][last'.op = "completedKeyDestroy"
            => LET Completed(d) ==
                       /\ d = Head(keyDestroys)
                       /\ \A requestId \in DOMAIN parserMap : keyRequests[requestId] # d
                       /\ d \notin sessions' /\ d \notin dcenters' /\ d \notin keysForWrite'
               IN  Completed(last'.id)]_vars

\* destroy_auth_key of the second key of dc 2 came back as fail after an error
\* had finished its auth.logOut: the session is gone, completedKeyDestroy is
\* queued behind that of the CDN dc.
C24_Witness ==
    /\ last.op = "destroy_auth_key_fail"
    /\ keyDestroys = <<destroyKeyNextDcId(3), destroyKeyNextDcId(destroyKeyNextDcId(2))>>
    /\ destroyKeyNextDcId(destroyKeyNextDcId(2)) \notin sessions
    /\ errorsSeen > 0

\* The help.getCdnConfig requests that are registered.
LiveCdnRequests(parsers) ==
    {requestId \in DOMAIN parsers : parsers[requestId] = "cdnConfig"}

\* How many loaders of kind h the last operation made.
LoadersMade(log, h) == Cardinality({i \in 1..Len(log) : log[i].h = h})

\* C25: at most one config loader, one http unixtime loader and one CDN-config
\* request are live at any instant: a loader is made only while none of its
\* kind is held, and the only registered help.getCdnConfig request is the one
\* _cdnConfigLoadRequestId names. requestConfig, syncHttpUnixtime and
\* requestCDNConfig change nothing while theirs is active, and requestConfig
\* changes nothing in a key destroyer; otherwise they start one.
C25_OneLoaderEach ==
    /\ [](/\ Cardinality(LiveCdnRequests(parserMap)) <= 1
          /\ LiveCdnRequests(parserMap) \subseteq {cdnConfigLoadRequestId}
          /\ isKeysDestroyer => ~configLoader)
    /\ [][/\ LoadersMade(called', "ConfigLoader") <= 1
          /\ LoadersMade(called', "SpecialConfigRequest") <= 1
          /\ LoadersMade(called', "ConfigLoader") = 1
                => configLoader' /\ (configLoader => last'.op = "configLoadDone")
          /\ LoadersMade(called', "SpecialConfigRequest") = 1
                => httpUnixtimeLoader = "none" /\ httpUnixtimeLoader' = "loading"
          /\ LiveCdnRequests(parserMap') \ LiveCdnRequests(parserMap) # {}
                => LiveCdnRequests(parserMap) = {} /\ cdnConfigLoadRequestId = 0]_vars
    /\ [][last'.op = "requestConfig"
            => IF configLoader \/ isKeysDestroyer
               THEN UNCHANGED tables /\ called' = <<>>
               ELSE configLoader' /\ LoadersMade(called', "ConfigLoader") = 1]_vars
    /\ [][last'.op = "syncHttpUnixtime"
            => IF httpUnixtimeLoader # "none" \/ last'.id = 1
               THEN UNCHANGED tables /\ called' = <<>>
               ELSE /\ httpUnixtimeLoader' = "loading"
                    /\ LoadersMade(called', "SpecialConfigRequest") = 1]_vars
    /\ [][last'.op = "requestCDNConfig"
            => IF cdnConfigLoadRequestId # 0 \/ isKeysDestroyer
               THEN UNCHANGED tables /\ sent' = <<>>
               ELSE /\ cdnConfigLoadRequestId' = GlobalAtomicRequestId'
                    /\ LiveCdnRequests(parserMap') = {cdnConfigLoadRequestId'}
                    /\ Len(sent') = 1 /\ sent'[1].id = cdnConfigLoadRequestId']_vars

\* requestCDNConfig is called while the request it sent before waits in the
\* delayed queue after a flood error, with the config loader and the http
\* unixtime loader both at work: nothing is started.
C25_Witness ==
    /\ last.op = "requestCDNConfig"
    /\ cdnConfigLoadRequestId = 1 /\ GlobalAtomicRequestId = 1
    /\ Len(delayedRequests) = 1
    /\ configLoader /\ httpUnixtimeLoader = "loading"

\* C26: GetNextRequestId never returns 0 and returns pairwise distinct ids over
\* a run shorter than INT_MAX / 2, also with callers on several threads: every
\* id is 1 or the one before it plus 1. Callers that do not overlap get
\* INT_MAX / 2 and then 1: the counter is below INT_MAX / 2 whenever no thread
\* is between its increment and its comparison. With overlapping callers the
\* id after INT_MAX / 2 is 1 only if the store of 0 came before the next
\* increment.
C26_DistinctNonZeroIds ==
    /\ \A i \in 1..Len(issued) : issued[i] # 0
    /\ \A i \in 1..Len(issued), j \in 1..Len(issued) : i # j => issued[i] # issued[j]
    /\ \A i \in 2..Len(issued) : issued[i] = 1 \/ issued[i] = issued[i - 1] + 1
    /\ (\A thread \in Threads : threadResult[thread] = 0)
            => GlobalAtomicRequestId < kRequestIdWrap
    /\ \A i \in 2..Len(issued) : issued[i] = 1 => \E j \in 1..(i - 1) : issued[j] = kRequestIdWrap

\* A thread got INT_MAX / 2 and two more threads incremented before it stored
\* 0: they hold INT_MAX / 2 + 1 and INT_MAX / 2 + 2, and the ids start from 1
\* again after the store.
C26_Witness ==
    /\ Len(issued) = MaxAllocations
    /\ issued[2] = kRequestIdWrap /\ issued[3] = kRequestIdWrap + 1
    /\ issued[4] = kRequestIdWrap + 2 /\ issued[5] = 1

\* The step is a MSG_WAIT_FAILED for requestId, which depends on afterId, and
\* it put an entry for requestId into the delayed queue.
WaitInserted(requestId, afterId) ==
    /\ last'.id = requestId /\ last'.err.type = "MSG_WAIT_FAILED"
    /\ requestId \in DOMAIN requestMap /\ requestMap[requestId].after = afterId
    /\ Enqueued(requestId)

\* The index of the first sendPrepared of requestId in the log, 0 if none.
SentAt(log, requestId) ==
    IF WasSent(log, requestId)
    THEN First({i \in 1..Len(log) : log[i].id = requestId})
    ELSE 0

\* C27 as stated: on MSG_WAIT_FAILED, with the dependency in the delayed queue
\* on the same shifted dc and not waiting on an auth import, the request is
\* inserted immediately after the dependency's entry with the same due time,
\* so that the timer re-sends the dependency before the dependent.
C27_InsertedAfterDependency ==
    /\ [][\A requestId \in 1..MaxQueueSends + 1, afterId \in 1..MaxQueueSends :
            WaitInserted(requestId, afterId)
                => \E i \in EntriesOf(delayedRequests', afterId) :
                       /\ i + 1 \in EntriesOf(delayedRequests', requestId)
                       /\ delayedRequests'[i + 1].due = delayedRequests'[i].due]_vars
    /\ [][\A requestId \in 1..MaxQueueSends + 1, afterId \in 1..MaxQueueSends :
            (/\ last'.op = "timer"
             /\ requestId \in DOMAIN requestMap /\ requestMap[requestId].after = afterId
             /\ WasSent(sent', requestId) /\ WasSent(sent', afterId))
                => SentAt(sent', afterId) < SentAt(sent', requestId)]_vars

\* C27, what the code does: the request is inserted at the position of the
\* first entry of its dependency, which moves one place back, with the due
\* time of that entry; the step takes nothing else out of the queue, and when
\* the timer drains both, the dependent is handed to the session first.
C27_InsertedBeforeDependency ==
    /\ [][\A requestId \in 1..MaxQueueSends + 1, afterId \in 1..MaxQueueSends :
            LET At(pos) ==
                    delayedRequests' =
                        InsertAt(delayedRequests, pos,
                                 [id |-> requestId, due |-> delayedRequests[pos].due])
                Before(entries) == entries # {} /\ At(First(entries))
            IN  WaitInserted(requestId, afterId)
                    => Before(EntriesOf(delayedRequests, afterId))]_vars
    /\ [][\A i \in 1..Len(delayedRequests) - 1 :
            LET Order(dependent, dependency) ==
                    (/\ last'.op = "timer"
                     /\ dependent.id \in DOMAIN requestMap
                     /\ requestMap[dependent.id].after = dependency.id
                     /\ dependent.due = dependency.due
                     /\ WasSent(sent', dependent.id) /\ WasSent(sent', dependency.id))
                        => SentAt(sent', dependent.id) < SentAt(sent', dependency.id)
            IN  Order(delayedRequests[i], delayedRequests[i + 1])]_vars

\* Request 2, sent after request 1, met MSG_WAIT_FAILED while request 1 waited
\* in the delayed queue, and the timer has fired: request 2 went to the session
\* first, request 1 after it.
C27_Witness ==
    /\ last.op = "timer"
    /\ 2 \in DOMAIN requestMap /\ requestMap[2].after = 1
    /\ Len(sent) = 2 /\ sent[1].id = 2 /\ sent[2].id = 1

\* ------------------------------------------------------------ auth waiter lists

MaxWaitSends == 2
MaxWaitErrors == 3

\* Requests pinned to dc 1, alone or after the request sent before them.
WaitShapes == {[handlers |-> "user", shiftedDcId |-> 1, after |-> a] : a \in {0, 1}}

\* The errors that put a request into an auth waiter list.
WaitErrors == {RpcError(401, "AUTH_KEY_UNREGISTERED", 0, FALSE),
               RpcError(400, "MSG_WAIT_FAILED", 0, FALSE)}

\* A server that asks for authorization on dc 1 and grants it, with dependent
\* requests, and Instance::rpcErrorOccured handing the policy an unauthorized
\* error for a request of the caller.
NextWaiters ==
    \/ \E shape \in WaitShapes : Send(shape, MaxWaitSends)
    \/ \E requestId \in 1..MaxRequests(MaxWaitSends), error \in WaitErrors, failRet \in BOOLEAN :
            ExecError(requestId, error, failRet, authorized, MaxWaitErrors,
                      MaxRequests(MaxWaitSends))
    \/ \E requestId \in 1..MaxWaitSends, failRet \in BOOLEAN :
            RpcErrorOccured(requestId, RpcError(401, "AUTH_KEY_UNREGISTERED", 0, FALSE),
                            failRet, MaxWaitErrors)
    \/ \E requestId \in 1..MaxRequests(MaxWaitSends), doneRet \in BOOLEAN, failRet \in BOOLEAN :
            ExecCallback(requestId, "result", NoError, doneRet, failRet, authorized,
                         MaxWaitErrors, MaxRequests(MaxWaitSends))

SpecWaiters == Init /\ [][NextWaiters]_vars

\* How many times x occurs in seq.
Occurrences(seq, x) == Cardinality({i \in 1..Len(seq) : seq[i] = x})

\* How many sendPrepared calls of the step were for requestId.
Dispatches(log, requestId) == Cardinality({i \in 1..Len(log) : log[i].id = requestId})

\* The waiter list of dc as the variable holds it.
WaitersOf(lists, dc) == IF dc \in DOMAIN lists THEN lists[dc] ELSE <<>>

\* The step is importDone for dc: its waiter list is drained.
ImportDrained(dc) ==
    /\ last'.op = "result"
    /\ WaitersOf(authWaiters, dc) # <<>>
    /\ WaitersOf(authWaiters', dc) = <<>>

\* C28 as stated: no request id is in an auth waiter list more than once, so
\* that a completed import hands each waiting request to a session at most once.
C28_NoDuplicateWaiters ==
    /\ [](\A dc \in DcIds : \A requestId \in 1..MaxRequests(MaxWaitSends) :
            Occurrences(WaitersOf(authWaiters, dc), requestId) <= 1)
    /\ [][\A dc \in DcIds : \A requestId \in 1..MaxRequests(MaxWaitSends) :
            ImportDrained(dc) => Dispatches(sent', requestId) <= 1]_vars

\* C28, what the code does: the MSG_WAIT_FAILED branch never adds a request
\* that is already in the list, the unauthorized branch appends the request
\* whether or not it is in the list, so only an unauthorized error for a request
\* already waiting makes a duplicate; a completed import hands each request to
\* a session once per occurrence in the list.
C28_DuplicateOnlyFromUnauthorized ==
    /\ [][\A dc \in DcIds : \A requestId \in 1..MaxRequests(MaxWaitSends) :
            LET before == Occurrences(WaitersOf(authWaiters, dc), requestId)
                after == Occurrences(WaitersOf(authWaiters', dc), requestId)
            IN  /\ last'.err.type = "MSG_WAIT_FAILED" => after <= IF before = 0 THEN 1 ELSE before
                /\ (after > before /\ before >= 1) =>
                        /\ last'.err.code = 401
                        /\ last'.id = requestId
                        /\ after = before + 1
                /\ ImportDrained(dc) => Dispatches(sent', requestId) <= before]_vars
    /\ [][\A requestId \in 1..MaxRequests(MaxWaitSends) :
            (last'.err.code = 401 /\ last'.id = requestId /\ last'.policy = "handled")
            => \E dc \in DcIds :
                    Occurrences(WaitersOf(authWaiters', dc), requestId)
                        = Occurrences(WaitersOf(authWaiters, dc), requestId) + 1]_vars

\* An import completed with request 1 twice in the waiter list of dc 1, and
\* request 1 was handed to the session twice.
C28_Witness ==
    /\ last.op = "result"
    /\ Dispatches(sent, 1) = 2
    /\ WaitersOf(authWaiters, 1) = <<>>


\* ------------------------------------------------------- delayed queue order

MaxOrderSends == 2
MaxOrderErrors == 3

\* A server that delays requests and fails dependent ones, the errors reaching
\* the policy through responses and through Instance::rpcErrorOccured, and the
\* timer of the delayed queue.
NextOrder ==
    \/ \E shape \in QueueShapes : Send(shape, MaxOrderSends)
    \/ \E requestId \in 1..MaxOrderSends, error \in QueueErrors :
            ExecError(requestId, error, FALSE, authorized, MaxOrderErrors,
                      MaxRequests(MaxOrderSends))
    \/ \E requestId \in 1..MaxOrderSends + 1, error \in QueueErrors :
            RpcErrorOccured(requestId, error, FALSE, MaxOrderErrors)
    \/ TimerFired

SpecOrder == Init /\ [][NextOrder]_vars

\* The delayed queue is ordered by due time.
OrderedByDue(queue) == \A i \in 1..Len(queue) - 1 : queue[i].due <= queue[i + 1].due

\* queue without its entry at pos.
WithoutAt(queue, pos) ==
    [i \in 1..Len(queue) - 1 |-> IF i < pos THEN queue[i] ELSE queue[i + 1]]

\* The step is the flood/transient branch adding an entry for the request of
\* the error at pos, the other entries staying as they were.
DelayInserted(pos) ==
    /\ last'.op \in {"error", "rpcError"}
    /\ IsTransient(last'.err) \/ IsFloodWait(last'.err)
    /\ Len(delayedRequests') = Len(delayedRequests) + 1
    /\ pos \in 1..Len(delayedRequests')
    /\ delayedRequests'[pos].id = last'.id
    /\ WithoutAt(delayedRequests', pos) = delayedRequests

\* C29 as stated: the delayed queue is ordered by due time, and the flood /
\* transient branch inserts the new entry at the first position whose due time
\* is greater than or equal to the new due time, ahead of the entries due at
\* the same time.
C29_InsertedAheadOfEqualDue ==
    /\ []OrderedByDue(delayedRequests)
    /\ [][(\E pos \in 1..MaxOrderErrors + 1 : DelayInserted(pos))
          => \E pos \in 1..MaxOrderErrors + 1 :
                /\ DelayInserted(pos)
                /\ \A i \in 1..Len(delayedRequests) :
                        i < pos <=> delayedRequests[i].due < delayedRequests'[pos].due]_vars

\* C29 amended: the delayed queue is ordered by due time, and the flood /
\* transient branch inserts the new entry at the first position whose due time
\* is greater than the new due time, behind the entries due at the same time.
C29_InsertedBehindEqualDue ==
    /\ []OrderedByDue(delayedRequests)
    /\ [][(\E pos \in 1..MaxOrderErrors + 1 : DelayInserted(pos))
          => \E pos \in 1..MaxOrderErrors + 1 :
                /\ DelayInserted(pos)
                /\ \A i \in 1..Len(delayedRequests) :
                        i < pos <=> delayedRequests[i].due <= delayedRequests'[pos].due]_vars

\* Requests 1 and 2 were delayed with the same due time, request 1 first: the
\* entry of request 2 is behind that of request 1.
C29_Witness ==
    /\ last.op = "error"
    /\ last.id = 2
    /\ IsFloodWait(last.err)
    /\ Len(delayedRequests) = 2
    /\ delayedRequests[1].id = 1
    /\ delayedRequests[2].id = 2
    /\ delayedRequests[1].due = delayedRequests[2].due


\* ------------------------------------------------------- delayed queue timer

\* The entry is due once "passed" milliseconds have gone by.
DueAfter(entry, passed) == entry.due <= passed

\* The routing and the payload of the entry's request are both stored.
Stored(entry) ==
    /\ queryRequestByDc(Cur, entry.id) # 0
    /\ entry.id \in DOMAIN requestMap

\* The sendPrepared calls a timer fire after "passed" milliseconds owes: one
\* for each due entry with routing and payload, in queue order, on the session
\* of the routing.
OwedSends(passed) ==
    LET due == SelectSeq(delayedRequests, LAMBDA e : DueAfter(e, passed) /\ Stored(e))
    IN  [i \in 1..Len(due) |->
            [id |-> due[i].id,
             dc |-> SessionKey(Cur, Abs(queryRequestByDc(Cur, due[i].id)))]]

\* The entries a timer fire after "passed" milliseconds leaves, their due times
\* counted from the fire.
LeftAfter(passed) ==
    LET later == SelectSeq(delayedRequests, LAMBDA e : ~DueAfter(e, passed))
    IN  [i \in 1..Len(later) |-> [later[i] EXCEPT !.due = @ - passed]]

\* C30: when the delayed timer fires, the entries due by then are removed and
\* no other; each removed entry whose routing and payload are stored is handed
\* to the session of its routing, the others are skipped without a send; the
\* timer is armed again, for the head entry, exactly when entries are left.
C30_TimerDrainsDue ==
    [][last'.op = "timer" =>
        /\ delayedRequests' = LeftAfter(checkDelayedTimer)
        /\ sent' = OwedSends(checkDelayedTimer)
        /\ checkDelayedTimer' = IF delayedRequests' # <<>>
                                THEN Head(delayedRequests').due
                                ELSE -1
        /\ delayedRequests' # <<>> => checkDelayedTimer' > 0]_vars

\* The timer fired with three entries: that of request 3, never sent, was
\* skipped, request 1 was handed to its session, and the timer is armed for
\* the entry of request 2, due later.
C30_Witness ==
    /\ last.op = "timer"
    /\ sent = <<[id |-> 1, dc |-> kDefaultMainDc]>>
    /\ Len(delayedRequests) = 1
    /\ delayedRequests[1].id = 2
    /\ checkDelayedTimer = delayedRequests[1].due
    /\ 3 \notin DOMAIN requestsByDc


\* --------------------------------------------------------------- key changes

\* The dc ids sessions report keys for: bare dcs and a temporary dc id.
KeyDcIds == {1, 2, kTemporaryMainDc + 1}

\* The keys they report, NoKey for a key that is gone.
KeyPtrs == {NoKey, 11, 12}

\* Sessions reporting persistent and temporary keys and keys destroyed on the
\* server, with a caller that sends requests to the dcs.
NextKeys ==
    \/ \E dcId \in KeyDcIds, persistentKey \in KeyPtrs :
            DcPersistentKeyChanged(dcId, persistentKey)
    \/ \E dcId \in KeyDcIds : DcTemporaryKeyChanged(dcId)
    \/ \E shiftedDcId \in DcIds, confirmed \in BOOLEAN :
            KeyDestroyedOnServer(shiftedDcId, confirmed)
    \/ \E shape \in MainShapes : Send(shape, MaxMainSends)

SpecKeys == Init /\ [][NextKeys]_vars

\* How many calls of h the step made.
CallsOf(log, h) == Cardinality({i \in 1..Len(log) : log[i].h = h})

\* C31: dcPersistentKeyChanged(dc, key) fires the temporary-key-changed event
\* for dc in every case; it stores key for dc (erasing the entry for a null key)
\* and writes the keys exactly when dc is not a temporary dc id and the stored
\* key, null when there is no entry, differs from key; otherwise the key
\* registry is left as it was and nothing is written.
C31_KeyWrittenWhenChanged ==
    [][\A dcId \in KeyDcIds, persistentKey \in KeyPtrs :
        DcPersistentKeyChanged(dcId, persistentKey) =>
            LET changes == /\ ~isTemporaryDcId(dcId)
                           /\ StoredKey(Cur, dcId) # persistentKey
            IN  /\ called'[1] = [h |-> "dcTemporaryKeyChanged", id |-> dcId, ret |-> TRUE]
                /\ CallsOf(called', "dcTemporaryKeyChanged") = 1
                /\ changes =>
                    /\ CallsOf(called', "writeMtpData") = 1
                    /\ keysForWrite' = IF persistentKey = NoKey
                                       THEN keysForWrite \ {dcId}
                                       ELSE keysForWrite \cup {dcId}
                    /\ \A d \in keysForWrite' :
                            keyValues'[d] = IF d = dcId THEN persistentKey ELSE keyValues[d]
                /\ ~changes =>
                    /\ CallsOf(called', "writeMtpData") = 0
                    /\ keysForWrite' = keysForWrite
                    /\ keyValues' = keyValues]_vars

\* dc 1 had a key and a session reported it gone: the entry was erased and the
\* keys were written, the key of dc 2 staying.
C31_Witness ==
    /\ last.op = "dcPersistentKeyChanged"
    /\ last.id = 1
    /\ CallsOf(called, "writeMtpData") = 1
    /\ 1 \notin keysForWrite
    /\ 2 \in keysForWrite


\* ------------------------------------------------------------ control blocks

MaxDcSends == 3

\* Requests pinned to dc 1 and dc 2 in three roles.
DcShapes ==
    {[handlers |-> "user", shiftedDcId |-> d, after |-> 0] :
        d \in {1, ShiftDcId(1, 1), ShiftDcId(1, 2), ShiftDcId(2, 1)}}

\* The shifted dcs getDcById is asked for.
AskedDcIds == {ShiftDcId(dcId, shift) : dcId \in DcIds, shift \in 0..3}

\* The instance in either mode, with requests to roles of the dcs and sessions
\* killed by the application.
NextDcs ==
    \/ \E shape \in DcShapes : Send(shape, MaxDcSends)
    \/ \E shiftedDcId \in {1, ShiftDcId(1, 1), ShiftDcId(1, 2)} : KillSession(shiftedDcId)
    \/ SessionsDestroyed

SpecDcs == (Init \/ StartDestroyer(<<1, 1>>)) /\ [][NextDcs]_vars

\* The key of _dcenters of the control block getDcById(shiftedDcId) returns.
ReturnedDc(s, shiftedDcId) == FoundDc(getDcById(s, shiftedDcId), shiftedDcId)

\* Two roles of one bare dc.
RolesOfOneDc(a, b) ==
    /\ BareDcId(a) = BareDcId(b)
    /\ GetDcIdShift(a) # GetDcIdShift(b)

ExpectKeyDcs == <<2, 3>>

\* The ids a run allocates: two requests of a caller with an export and an
\* import, or auth.logOut and destroy_auth_key for each key.
ExpectRequests == 2 * Len(ExpectKeyDcs)

\* The errors of key destruction and the errors that ask for authorization.
ExpectErrors == KeyErrors \cup AuthErrors

\* The instance in either mode against a server that may answer any request,
\* auth.logOut and destroy_auth_key included, with any of these errors.
NextExpects ==
    \/ \E shape \in MainShapes :
            /\ shape.shiftedDcId = 0 => mainSession # 0
            /\ Send(shape, MaxMainSends)
    \/ \E shiftedDcId \in KilledDcIds : KillSession(shiftedDcId)
    \/ \E requestId \in 1..ExpectRequests,
           result \in {"destroy_auth_key_ok", "destroy_auth_key_fail"} :
            KeyDestroyResult(requestId, result)
    \/ \E requestId \in 1..ExpectRequests, error \in ExpectErrors, auth \in BOOLEAN :
            ExecError(requestId, error, FALSE, auth, MaxKeyErrors, ExpectRequests)
    \/ \E requestId \in 1..ExpectRequests, doneRet \in BOOLEAN :
            /\ requestId \in DOMAIN parserMap /\ parserMap[requestId] # "destroyKey"
            /\ ExecCallback(requestId, "result", NoError, doneRet, FALSE, authorized,
                            MaxKeyErrors, ExpectRequests)
    \/ TimerFired
    \/ KeyDestroyCompleted
    \/ SessionsDestroyed

SpecExpects == (Init \/ StartDestroyer(ExpectKeyDcs)) /\ [][NextExpects]_vars

\* C33 as stated: every internal call of mainDcId() and of getSession(0) meets
\* its precondition in every reachable state of both modes; handling a 401 for
\* a request of the key destroyer never evaluates mainDcId() with no main dc set.
C33_PreconditionsHold == violated = {}

\* The error is one the policy sends to its unauthorized branch.
AsksAuthorization(error, requestId) ==
    \/ error.code = 401 /\ error.type # "AUTH_KEY_PERM_EMPTY"
    \/ IsBadGuestDc(error) /\ requestId \notin badGuestDcRequests

\* C33, what the code does: in normal mode no precondition fails; in
\* key-destroyer mode the unauthorized branch of the policy calls mainDcId()
\* for every request with a routing, and its Expects fails: every 401 other
\* than AUTH_KEY_PERM_EMPTY, and every first FILE_ID_INVALID, answered to a
\* request of the destroyer ends the program, and nothing else does.
C33_UnauthorizedEndsDestroyer ==
    /\ [](~isKeysDestroyer => violated = {})
    /\ [](violated \subseteq {"mainDcId"})
    /\ [][(/\ last'.op = "error"
           /\ isKeysDestroyer
           /\ last'.id \in DOMAIN requestsByDc
           /\ AsksAuthorization(last'.err, last'.id))
          <=> violated' # {}]_vars

\* The server answered the auth.logOut of the key destroyer with 401
\* AUTH_KEY_UNREGISTERED: the Expects of mainDcId() failed.
C33_Witness ==
    /\ isKeysDestroyer
    /\ violated = {"mainDcId"}
    /\ last.op = "error"
    /\ last.id = 1
    /\ last.err.code = 401
    /\ last.err.type = "AUTH_KEY_UNREGISTERED"


\* ------------------------------------------------------- waiters and chains

\* An auth export for bare dc d, or the import its result sends to d, is
\* registered: in flight, or kept by the policy for a retry.
ChainRegistered(d) ==
    \E requestId \in DOMAIN parserMap :
        \/ /\ parserMap[requestId] = "export"
           /\ requestId \in DOMAIN authExportRequests
           /\ BareDcId(authExportRequests[requestId]) = d
        \/ /\ parserMap[requestId] = "import"
           /\ requestId \in DOMAIN requestsByDc
           /\ BareDcId(Abs(requestsByDc[requestId])) = d

\* C34 as stated: whenever the auth waiter list of a bare dc is not empty, an
\* auth export or an auth import for that dc is pending, whatever the outcome
\* of the chains before; a request that gets a 401 is never parked behind a
\* waiter list whose chain has ended.
C34_WaitersHaveChain ==
    \A d \in DcIds : Waiters(Cur, d) # <<>> => ChainRegistered(d)

\* The step is the failure of the auth import requestId with an error that
\* the policy does not retry and importFail accepts.
ImportFailed(requestId) ==
    /\ last'.op = "error" /\ last'.id = requestId
    /\ requestId \in DOMAIN parserMap /\ parserMap[requestId] = "import"
    /\ requestId \notin DOMAIN parserMap'

\* C34, what the code does: an auth import that fails is dropped and the waiter
\* lists are left as they were; a 401 handled for a dc whose waiter list is not
\* empty appends the request and sends nothing, whether or not an export or an
\* import for the dc is pending.
C34_FailedImportLeavesWaiters ==
    /\ [][\A requestId \in 1..MaxRequests(MaxAuthSends) :
            ImportFailed(requestId) => authWaiters' = authWaiters /\ sent' = <<>>]_vars
    /\ [][\A d \in DcIds :
            (Handled401' /\ Waiters(Cur, d) # <<>>
                /\ last'.id \in DOMAIN requestsByDc
                /\ BareDcId(Abs(requestsByDc[last'.id])) = d)
            => /\ sent' = <<>>
               /\ authWaiters'[d] = Append(authWaiters[d], last'.id)]_vars

\* The import for dc 1 failed and request 1 stayed in the waiter list; request
\* 2 then got a 401 and was put behind it, with no export or import for dc 1
\* registered and nothing sent.
C34_Witness ==
    /\ Handled401
    /\ last.id = 2
    /\ Waiters(Cur, 1) = <<1, 2>>
    /\ ~ChainRegistered(1)
    /\ sent = <<>>


\* ------------------------------------------------- handled dependent waits

\* The step is a MSG_WAIT_FAILED error for requestId that onErrorDefault
\* reported as handled.
WaitHandled(requestId) ==
    /\ last'.op \in {"error", "rpcError"}
    /\ last'.id = requestId
    /\ last'.err.type = "MSG_WAIT_FAILED"
    /\ last'.policy = "handled"

\* After the step requestId was handed to a session, or is in an auth waiter
\* list, or has an entry in the delayed queue.
ScheduledAfter(requestId) ==
    \/ Dispatches(sent', requestId) >= 1
    \/ \E d \in DOMAIN authWaiters' : Contains(authWaiters'[d], requestId)
    \/ \E i \in 1..Len(delayedRequests') : delayedRequests'[i].id = requestId

\* C35 as stated: whenever onErrorDefault reports a MSG_WAIT_FAILED error as
\* handled, the request has been re-sent, or is in an auth waiter list, or has
\* an entry in the delayed queue.
C35_HandledWaitIsScheduled ==
    [][\A requestId \in 1..MaxOrderSends + 1 :
        WaitHandled(requestId) => ScheduledAfter(requestId)]_vars

\* C35, what the code does: a MSG_WAIT_FAILED error is reported as handled also
\* when the dependency, routed like the request, is neither in the waiter list
\* of the dc nor in the delayed queue; the step then leaves the waiter lists
\* and the delayed queue as they were and hands nothing to a session.
C35_HandledWaitMayBeDropped ==
    [][\A requestId \in 1..MaxOrderSends + 1 :
        (WaitHandled(requestId) /\ ~ScheduledAfter(requestId)) =>
            LET afterId == requestMap[requestId].after
            IN  /\ afterId # 0
                /\ queryRequestByDc(Cur, afterId) = queryRequestByDc(Cur, requestId)
                /\ queryRequestByDc(Cur, requestId) # 0
                /\ \A d \in DOMAIN authWaiters : ~Contains(authWaiters[d], afterId)
                /\ \A i \in 1..Len(delayedRequests) : delayedRequests[i].id # afterId
                /\ authWaiters' = authWaiters
                /\ delayedRequests' = delayedRequests
                /\ sent' = <<>>]_vars

\* Request 2 depends on request 1, which is with its session and not answered;
\* the MSG_WAIT_FAILED error for request 2 was handled, and request 2 keeps
\* its handlers but is with no session, in no waiter list and not in the
\* delayed queue.
C35_Witness ==
    /\ last.op = "error"
    /\ last.id = 2
    /\ last.err.type = "MSG_WAIT_FAILED"
    /\ last.policy = "handled"
    /\ 2 \in DOMAIN parserMap
    /\ 2 \notin inflight
    /\ 1 \in inflight
    /\ delayedRequests = <<>>
    /\ authWaiters = EmptyMap
    /\ sent = <<>>


\* ------------------------------------------------ cancelled requests stay out

MaxCancelSends == 2
MaxCancelErrors == 2

\* Requests to the main dc and to dc 1, alone or after the request before them.
CancelShapes ==
    {[handlers |-> "user", shiftedDcId |-> d, after |-> a] : d \in {0, 1}, a \in {0, 1}}

\* Errors that put a request into the delayed queue or into a waiter list.
CancelErrors == {RpcError(420, "FLOOD_WAIT", 0, FALSE),
                 RpcError(401, "AUTH_KEY_UNREGISTERED", 0, FALSE),
                 RpcError(400, "MSG_WAIT_FAILED", 0, FALSE)}

\* A caller that cancels what it sent, against a server that delays requests
\* and asks for authorization: responses, Instance::rpcErrorOccured for any
\* request id, the results of exports and imports, and the timer.
NextCancel ==
    \/ \E shape \in CancelShapes : Send(shape, MaxCancelSends)
    \/ \E requestId \in 1..MaxCancelSends : Cancel(requestId)
    \/ \E requestId \in 1..MaxRequests(MaxCancelSends), error \in CancelErrors :
            ExecError(requestId, error, FALSE, authorized, MaxCancelErrors,
                      MaxRequests(MaxCancelSends))
    \/ \E requestId \in 1..MaxCancelSends, error \in CancelErrors :
            RpcErrorOccured(requestId, error, FALSE, MaxCancelErrors)
    \/ \E requestId \in 1..MaxRequests(MaxCancelSends) :
            ExecCallback(requestId, "result", NoError, TRUE, FALSE, authorized,
                         MaxCancelErrors, MaxRequests(MaxCancelSends))
    \/ TimerFired

SpecCancel == Init /\ [][NextCancel]_vars

\* requestId was allocated and its payload or its routing is gone: it was
\* cancelled or unregistered.
Gone(requestId) ==
    /\ requestId <= GlobalAtomicRequestId
    /\ \/ requestId \in cancelled
       \/ requestId \notin DOMAIN requestMap
       \/ queryRequestByDc(Cur, requestId) = 0

\* C36: once a request id was cancelled or unregistered, no step hands it to a
\* session and no step stores a payload or a routing for it again, whether or
\* not the id still has an entry in the delayed queue or in a waiter list.
C36_GoneIsNeverSent ==
    [][\A requestId \in 1..MaxRequests(MaxCancelSends) + 1 :
        Gone(requestId) =>
            /\ Dispatches(sent', requestId) = 0
            /\ requestId \notin DOMAIN requestMap'
            /\ requestId \notin DOMAIN requestsByDc']_vars

\* Request 1, sent to dc 1, waited for the authorization of dc 1 and was
\* cancelled while it waited; the import for dc 1 has just completed and has
\* handed nothing to a session.
C36_Witness ==
    /\ last.op = "result"
    /\ last.id = 3
    /\ GlobalAtomicRequestId = 3
    /\ cancelled = {1}
    /\ \E i \in 1..Len(called) : called[i].h = "done" /\ called[i].id = 3
    /\ sent = <<>>
    /\ authWaiters = EmptyMap


\* ------------------------------------------------ requests without handlers

MaxBareSends == 2
MaxBareErrors == 2

\* Requests with and without handlers, to the main dc and to dc 1.
BareShapes ==
    {[handlers |-> h, shiftedDcId |-> d, after |-> 0] : h \in {"none", "user"}, d \in {0, 1}}

\* One error of every branch of the error policy.
BareErrors == {RpcError(303, "FILE_MIGRATE", 1, FALSE), RpcError(420, "FLOOD_WAIT", 0, FALSE),
               RpcError(500, "INTERNAL", 0, FALSE),
               RpcError(401, "AUTH_KEY_UNREGISTERED", 0, FALSE),
               RpcError(400, "CONNECTION_LAYER_INVALID", 0, FALSE),
               RpcError(400, "PEER_ID_INVALID", 0, FALSE)}

\* Callers that send with and without handlers against a server that answers
\* with any frame.
NextBare ==
    \/ \E shape \in BareShapes : Send(shape, MaxBareSends)
    \/ \E requestId \in 1..MaxRequests(MaxBareSends), error \in BareErrors :
            ExecError(requestId, error, FALSE, authorized, MaxBareErrors,
                      MaxRequests(MaxBareSends))
    \/ \E requestId \in 1..MaxRequests(MaxBareSends),
           frame \in {"empty", "badError", "result"} :
            ExecCallback(requestId, frame, NoError, TRUE, FALSE, authorized,
                         MaxBareErrors, MaxRequests(MaxBareSends))
    \/ TimerFired

SpecBare == Init /\ [][NextBare]_vars

\* requestId is stored without handlers and the step is execCallback for it.
BareResponse(requestId) ==
    /\ requestId \in DOMAIN requestMap
    /\ requestId \notin DOMAIN parserMap
    /\ last'.op \in {"empty", "badError", "error", "result"}
    /\ last'.id = requestId

\* C37: execCallback for a request stored without handlers, whatever the
\* frame, does not consult the error policy and calls no handler; it removes
\* the routing, the payload and the retry delay of the request, hands nothing
\* to a session and leaves the delayed queue and the waiter lists alone.
C37_NoHandlerNoPolicy ==
    [][\A requestId \in 1..MaxRequests(MaxBareSends) :
        BareResponse(requestId) =>
            /\ last'.policy = "none"
            /\ called' = <<>>
            /\ requestId \notin DOMAIN requestsByDc'
            /\ requestId \notin DOMAIN requestMap'
            /\ requestId \notin DOMAIN requestsDelays'
            /\ requestId \notin DOMAIN parserMap'
            /\ sent' = <<>>
            /\ delayedRequests' = delayedRequests
            /\ authWaiters' = authWaiters]_vars

\* Request 1 was sent without handlers and answered with FLOOD_WAIT: the policy
\* was not asked, the request is unregistered and not queued.
C37_Witness ==
    /\ last.op = "error"
    /\ last.id = 1
    /\ last.err.code = 420
    /\ last.policy = "none"
    /\ 1 \notin DOMAIN requestMap
    /\ 1 \notin DOMAIN requestsByDc
    /\ delayedRequests = <<>>
    /\ sent = <<>>


\* ------------------------------------------------ the CDN-config marker

\* The step ends the registered help.getCdnConfig request requestId.
CdnFinished(requestId) ==
    /\ requestId \in LiveCdnRequests(parserMap)
    /\ requestId \notin LiveCdnRequests(parserMap')

\* C38 as stated: whenever help.getCdnConfig finishes, with a result or with
\* an error, _cdnConfigLoadRequestId is cleared, so that no state has the
\* marker set with no request registered.
C38_MarkerClearedWhenFinished ==
    /\ [][\A requestId \in 1..MaxCdnRequests :
            CdnFinished(requestId) => cdnConfigLoadRequestId' = 0]_vars
    /\ [](LiveCdnRequests(parserMap) = {} => cdnConfigLoadRequestId = 0)

\* C38, what the code does: a result clears the marker; an error that ends the
\* request leaves the marker naming it, and from then on the marker stays and
\* no help.getCdnConfig request is registered again.
C38_MarkerClearedByResultOnly ==
    /\ [][\A requestId \in 1..MaxCdnRequests :
            CdnFinished(requestId) =>
                IF last'.op = "result" THEN cdnConfigLoadRequestId' = 0
                ELSE /\ last'.op = "error"
                     /\ cdnConfigLoadRequestId = requestId
                     /\ cdnConfigLoadRequestId' = requestId]_vars
    /\ [][(cdnConfigLoadRequestId # 0 /\ LiveCdnRequests(parserMap) = {}) =>
            /\ cdnConfigLoadRequestId' = cdnConfigLoadRequestId
            /\ LiveCdnRequests(parserMap') = {}]_vars

\* help.getCdnConfig (request 1) failed and is unregistered; requestCDNConfig
\* was then called with a main dc set and started nothing.
C38_Witness ==
    /\ last.op = "requestCDNConfig"
    /\ mainDcId # kNoneMainDc
    /\ cdnConfigLoadRequestId = 1
    /\ GlobalAtomicRequestId = 1
    /\ LiveCdnRequests(parserMap) = {}
    /\ 1 \notin DOMAIN requestMap
    /\ sent = <<>>

====
